---- MODULE Spec2Model ----
(***************************************************************************)
(* Meeting intelligence agent (recipes/level-2-intermediate/               *)
(* meeting-intelligence-agent): the processing pipeline, the JSON store,   *)
(* the segment merger and the retrieval engine, as state machines.         *)
(*                                                                         *)
(* Times are integers counted in units of half a second (the code holds    *)
(* seconds rounded to three decimals); 1.0 s is 2 units.                   *)
(***************************************************************************)
EXTENDS Integers, Sequences, FiniteSets, TLC

VARIABLES
    recordings,   \* meeting ids that have an audio file in RECORDINGS_DIR
    fs,           \* the JSON files on disk: path -> text; DOMAIN fs = existing files
    index,        \* the vector index: meeting id -> collection
    pc,           \* position of the running process_meeting call
    call,         \* arguments of the running / last process_meeting call
    segments,     \* local variable `segments` of process_meeting
    utterances,   \* local variable `utterances` of process_meeting
    result,       \* value returned by the last process_meeting call
    ncalls,       \* number of process_meeting calls made so far
    mIn,          \* merger harness: input segment sequence
    mGap,         \* merger harness: max_gap_seconds
    mOut,         \* merger harness: merge(mIn, mGap)
    mAgain,       \* merger harness: merge(mOut, mGap)
    mpc,          \* merger harness: position
    tIn,          \* transcription harness: diarization segments
    tOutcome,     \* transcription harness: what happens to each segment
    tOut,         \* transcription harness: utterances returned
    tpc,          \* transcription harness: position
    sSaved,       \* store harness: per meeting id, the document saved last
    spc,          \* store harness: position
    qIndex,       \* search harness: the meeting's collection, in retrieval order
    qRoles,       \* search harness: speaker_roles (<<>> stands for None and [])
    qLimit,       \* search harness: max_results
    qMap,         \* search harness: the meeting's speaker map
    qRecv,        \* search harness: all_results as received, before the sort
    qOrder,       \* search harness: position in qRecv of each returned entry
    qOut,         \* search harness: the returned list
    qpc,          \* search harness: position
    qExists,      \* search harness: whether the meeting has a collection
    qIssued,      \* search harness: speaker filters of the sub-queries issued
    kStored,      \* lookup harness: the stored transcript, if there is one
    kArgs,        \* lookup harness: arguments of the call
    kOut,         \* lookup harness: the returned list
    kpc,          \* lookup harness: position
    fIn,          \* format harness: results
    fStamps,      \* format harness: include_timestamps
    fOut,         \* format harness: the returned text
    fpc,          \* format harness: position
    aProcessed,   \* answer action: whether the meeting is processed
    aRole,        \* answer action: slot speaker_role ("" stands for None)
    aSearch,      \* answer action: what search_utterances does
    aGen,         \* answer action: what answer generation does
    aSent,        \* answer action: messages given to the dispatcher
    aEvents,      \* answer action: events returned
    apc,          \* answer action: position
    lIn,          \* label harness: utterances
    lMap,         \* label harness: speaker map
    lOut,         \* label harness: apply_speaker_map(lIn, lMap)
    lpc           \* label harness: position

pipeVars == <<recordings, fs, index, pc, call, segments, utterances, result, ncalls>>
mergeVars == <<mIn, mGap, mOut, mAgain, mpc>>
transVars == <<tIn, tOutcome, tOut, tpc>>
storeVars == <<sSaved, spc>>
searchVars == <<qIndex, qRoles, qLimit, qMap, qRecv, qOrder, qOut, qpc, qExists, qIssued>>
lookupVars == <<kStored, kArgs, kOut, kpc>>
formatVars == <<fIn, fStamps, fOut, fpc>>
answerVars == <<aProcessed, aRole, aSearch, aGen, aSent, aEvents, apc>>
labelVars == <<lIn, lMap, lOut, lpc>>
vars == <<recordings, fs, index, pc, call, segments, utterances, result, ncalls,
          mIn, mGap, mOut, mAgain, mpc, tIn, tOutcome, tOut, tpc,
          sSaved, spc, qIndex, qRoles, qLimit, qMap, qRecv, qOrder, qOut, qpc,
          qExists, qIssued, kStored, kArgs, kOut, kpc, fIn, fStamps, fOut, fpc,
          aProcessed, aRole, aSearch, aGen, aSent, aEvents, apc, lIn, lMap, lOut, lpc>>

-----------------------------------------------------------------------------
(* Bounds and small input sets                                             *)

MaxCalls == 2        \* process_meeting calls in one behaviour
MergeLen == 3        \* longest segment sequence given to the merger harness
MergeTime == 3       \* largest time value in the merger harness
MergeGapMax == 2     \* largest max_gap_seconds in the merger harness
TransLen == 3        \* longest segment sequence given to the transcription harness
StoreLen == 2        \* longest utterance list saved by the store harness
IndexLen == 3        \* most entries in the collection of the search harness
MaxLimit == 2        \* largest max_results in the search harness
LookupLen == 2       \* longest small transcript in the lookup harness
MaxRadius == 2       \* largest context_size in the lookup harness
FormatLen == 2       \* longest result list in the format harness
LabelLen == 3        \* longest utterance list in the label harness

MeetingIds == {"m1"}
Labels == {"SPEAKER_0", "SPEAKER_1"}
Titles == {"", "Q3 Call"}          \* "" stands for title=None (both are falsy)
Texts == {"revenue grew"}
SpeakerMaps == { [l \in {"SPEAKER_0"} |-> "CEO"] }

Turn(speaker, start, end) == [speaker |-> speaker, start |-> start, end |-> end]

Min(a, b) == IF a <= b THEN a ELSE b
Max(a, b) == IF a >= b THEN a ELSE b

-----------------------------------------------------------------------------
(* config.py: file locations                                               *)

get_diarization_path(meeting_id) == <<"processed", meeting_id, "_diarization.json">>
get_transcript_path(meeting_id) == <<"processed", meeting_id, "_transcript.json">>
get_speaker_map_path(meeting_id) == <<"speaker_maps", meeting_id, "_speaker_map.json">>

PathExists(f, path) == path \in DOMAIN f

\* get_audio_path raises FileNotFoundError unless a recording exists
AudioExists(meeting_id) == meeting_id \in recordings

\* Mutant: the diarization file is taken for the sign of a processed meeting
meeting_is_processed_diar(meeting_id) == PathExists(fs, get_diarization_path(meeting_id))

meeting_is_processed(meeting_id) == PathExists(fs, get_transcript_path(meeting_id))

-----------------------------------------------------------------------------
(* JSON text: json.dump writes numbers as decimal literals, json.load      *)
(* parses them back                                                        *)

RECURSIVE Digits(_)
Digits(n) == IF n < 10 THEN <<n>> ELSE Append(Digits(n \div 10), n % 10)

RECURSIVE FromDigits(_)
FromDigits(ds) ==
    IF ds = <<>> THEN 0
    ELSE 10 * FromDigits(SubSeq(ds, 1, Len(ds) - 1)) + ds[Len(ds)]

NumLiteral(n) == [neg |-> n < 0, digits |-> Digits(IF n < 0 THEN 0 - n ELSE n)]
ParseNum(lit) == IF lit.neg THEN 0 - FromDigits(lit.digits) ELSE FromDigits(lit.digits)

json_dump(kind, data) ==
    CASE kind = "segments" ->
           [i \in 1..Len(data) |->
              [speaker |-> data[i].speaker,
               start |-> NumLiteral(data[i].start),
               end |-> NumLiteral(data[i].end)]]
      [] kind = "transcript" ->
           [meeting_id |-> data.meeting_id,
            title |-> data.title,
            utterances |->
              [i \in 1..Len(data.utterances) |->
                 [id |-> NumLiteral(data.utterances[i].id),
                  speaker |-> data.utterances[i].speaker,
                  start |-> NumLiteral(data.utterances[i].start),
                  end |-> NumLiteral(data.utterances[i].end),
                  text |-> data.utterances[i].text]],
            metadata |->
              [total_utterances |-> NumLiteral(data.metadata.total_utterances),
               total_duration |-> NumLiteral(data.metadata.total_duration),
               whisper_model |-> data.metadata.whisper_model,
               whisper_language |-> data.metadata.whisper_language]]
      [] kind = "speaker_map" -> data

json_load(kind, text) ==
    CASE kind = "segments" ->
           [i \in 1..Len(text) |->
              [speaker |-> text[i].speaker,
               start |-> ParseNum(text[i].start),
               end |-> ParseNum(text[i].end)]]
      [] kind = "transcript" ->
           [meeting_id |-> text.meeting_id,
            title |-> text.title,
            utterances |->
              [i \in 1..Len(text.utterances) |->
                 [id |-> ParseNum(text.utterances[i].id),
                  speaker |-> text.utterances[i].speaker,
                  start |-> ParseNum(text.utterances[i].start),
                  end |-> ParseNum(text.utterances[i].end),
                  text |-> text.utterances[i].text]],
            metadata |->
              [total_utterances |-> ParseNum(text.metadata.total_utterances),
               total_duration |-> ParseNum(text.metadata.total_duration),
               whisper_model |-> text.metadata.whisper_model,
               whisper_language |-> text.metadata.whisper_language]]
      [] kind = "speaker_map" -> text

\* open(path, "w") truncates, then the whole document is written
WriteFile(f, path, text) ==
    [p \in (DOMAIN f) \cup {path} |-> IF p = path THEN text ELSE f[p]]

-----------------------------------------------------------------------------
(* storage.py                                                              *)

\* Mutant: the file is not truncated; utterances of a longer previous
\* document stay behind the new ones
save_json_patch(f, path, kind, data) ==
    IF kind = "transcript" /\ PathExists(f, path)
          /\ Len(f[path].utterances) > Len(data.utterances)
    THEN WriteFile(f, path,
            [json_dump(kind, data) EXCEPT !.utterances =
                json_dump(kind, data).utterances
                    \o SubSeq(f[path].utterances, Len(data.utterances) + 1,
                              Len(f[path].utterances))])
    ELSE WriteFile(f, path, json_dump(kind, data))

save_json(f, path, kind, data) == WriteFile(f, path, json_dump(kind, data))

\* defined only when the file exists (FileNotFoundError otherwise)
load_json(f, path, kind) == json_load(kind, f[path])

load_transcript(f, meeting_id) == load_json(f, get_transcript_path(meeting_id), "transcript")

\* None is modelled as the empty map: both are falsy where the map is used
NoMap == [l \in {} |-> ""]
load_speaker_map(f, meeting_id) ==
    IF ~PathExists(f, get_speaker_map_path(meeting_id)) THEN NoMap
    ELSE load_json(f, get_speaker_map_path(meeting_id), "speaker_map")

-----------------------------------------------------------------------------
(* diarization.py: merge_same_speaker_segments                             *)

RECURSIVE MergeLoop(_, _, _, _, _)
MergeLoop(segs, i, current, merged, max_gap) ==
    IF i > Len(segs) THEN Append(merged, current)
    ELSE IF segs[i].speaker = current.speaker
            /\ (segs[i].start - current.end) <= max_gap
         THEN MergeLoop(segs, i + 1, [current EXCEPT !.end = segs[i].end], merged, max_gap)
         ELSE MergeLoop(segs, i + 1, segs[i], Append(merged, current), max_gap)

\* Mutant: the "else" is lost, the accumulator is emitted after every segment
RECURSIVE MergeLoopNoElse(_, _, _, _, _)
MergeLoopNoElse(segs, i, current, merged, max_gap) ==
    IF i > Len(segs) THEN Append(merged, current)
    ELSE IF segs[i].speaker = current.speaker
            /\ (segs[i].start - current.end) <= max_gap
         THEN MergeLoopNoElse(segs, i + 1, segs[i],
                              Append(merged, [current EXCEPT !.end = segs[i].end]), max_gap)
         ELSE MergeLoopNoElse(segs, i + 1, segs[i], Append(merged, current), max_gap)

merge_no_else(segs, max_gap_seconds) ==
    IF segs = <<>> THEN <<>>
    ELSE MergeLoopNoElse(segs, 2, segs[1], <<>>, max_gap_seconds)

\* Mutant: the accumulator's end never moves backwards
RECURSIVE MergeLoopMaxEnd(_, _, _, _, _)
MergeLoopMaxEnd(segs, i, current, merged, max_gap) ==
    IF i > Len(segs) THEN Append(merged, current)
    ELSE IF segs[i].speaker = current.speaker
            /\ (segs[i].start - current.end) <= max_gap
         THEN MergeLoopMaxEnd(segs, i + 1,
                              [current EXCEPT !.end = Max(current.end, segs[i].end)],
                              merged, max_gap)
         ELSE MergeLoopMaxEnd(segs, i + 1, segs[i], Append(merged, current), max_gap)

merge_max_end(segs, max_gap_seconds) ==
    IF segs = <<>> THEN <<>>
    ELSE MergeLoopMaxEnd(segs, 2, segs[1], <<>>, max_gap_seconds)

\* Mutant: the gap bound is exclusive
RECURSIVE MergeLoopStrict(_, _, _, _, _)
MergeLoopStrict(segs, i, current, merged, max_gap) ==
    IF i > Len(segs) THEN Append(merged, current)
    ELSE IF segs[i].speaker = current.speaker
            /\ (segs[i].start - current.end) < max_gap
         THEN MergeLoopStrict(segs, i + 1, [current EXCEPT !.end = segs[i].end],
                              merged, max_gap)
         ELSE MergeLoopStrict(segs, i + 1, segs[i], Append(merged, current), max_gap)

merge_strict(segs, max_gap_seconds) ==
    IF segs = <<>> THEN <<>>
    ELSE MergeLoopStrict(segs, 2, segs[1], <<>>, max_gap_seconds)

\* Mutant: a segment that cannot join the accumulator joins the last
\* emitted segment when that one has its speaker and is close enough
RECURSIVE MergeLoopBacktrack(_, _, _, _, _)
MergeLoopBacktrack(segs, i, current, merged, max_gap) ==
    IF i > Len(segs) THEN Append(merged, current)
    ELSE IF segs[i].speaker = current.speaker
            /\ (segs[i].start - current.end) <= max_gap
         THEN MergeLoopBacktrack(segs, i + 1, [current EXCEPT !.end = segs[i].end],
                                 merged, max_gap)
         ELSE IF merged # <<>>
                 /\ merged[Len(merged)].speaker = segs[i].speaker
                 /\ (segs[i].start - merged[Len(merged)].end) <= max_gap
         THEN MergeLoopBacktrack(segs, i + 1, current,
                                 [merged EXCEPT ![Len(merged)].end = segs[i].end], max_gap)
         ELSE MergeLoopBacktrack(segs, i + 1, segs[i], Append(merged, current), max_gap)

merge_backtrack(segs, max_gap_seconds) ==
    IF segs = <<>> THEN <<>>
    ELSE MergeLoopBacktrack(segs, 2, segs[1], <<>>, max_gap_seconds)

merge_same_speaker_segments(segs, max_gap_seconds) ==
    IF segs = <<>> THEN <<>>
    ELSE MergeLoop(segs, 2, segs[1], <<>>, max_gap_seconds)

-----------------------------------------------------------------------------
(* transcription.py                                                        *)

FAILED_TEXT == "[TRANSCRIPTION FAILED]"
WHISPER_MODEL == "medium.en"
WHISPER_LANGUAGE == "en"

\* what happens to one segment: ffmpeg fails (RuntimeError), the model
\* raises, or the model returns a text
SegOutcomes == Texts \cup {"EXTRACT_ERROR", "ASR_ERROR"}

\* Mutant: utterances are numbered as they are appended
RECURSIVE TranscribeLoopRenumber(_, _, _, _)
TranscribeLoopRenumber(segs, outcome, idx, acc) ==
    IF idx > Len(segs) THEN acc
    ELSE IF outcome[idx] = "EXTRACT_ERROR"
         THEN TranscribeLoopRenumber(segs, outcome, idx + 1, acc)
         ELSE TranscribeLoopRenumber(segs, outcome, idx + 1,
                Append(acc,
                  [id |-> Len(acc) + 1,
                   speaker |-> segs[idx].speaker,
                   start |-> segs[idx].start,
                   end |-> segs[idx].end,
                   text |-> IF outcome[idx] = "ASR_ERROR" THEN FAILED_TEXT
                            ELSE outcome[idx]]))

\* lines 180-215: one utterance per segment whose audio could be extracted
RECURSIVE TranscribeLoop(_, _, _, _)
TranscribeLoop(segs, outcome, idx, acc) ==
    IF idx > Len(segs) THEN acc
    ELSE IF outcome[idx] = "EXTRACT_ERROR"
         THEN TranscribeLoop(segs, outcome, idx + 1, acc)
         ELSE TranscribeLoop(segs, outcome, idx + 1,
                Append(acc,
                  [id |-> idx,
                   speaker |-> segs[idx].speaker,
                   start |-> segs[idx].start,
                   end |-> segs[idx].end,
                   text |-> IF outcome[idx] = "ASR_ERROR" THEN FAILED_TEXT
                            ELSE outcome[idx]]))

RECURSIVE MaxEnd(_)
MaxEnd(utts) ==
    IF Len(utts) = 1 THEN utts[1].end
    ELSE Max(utts[1].end, MaxEnd(Tail(utts)))

DefaultTitle(meeting_id) == IF meeting_id = "m1" THEN "Meeting m1" ELSE "Meeting m2"

BuildTranscript(meeting_id, title, utts) ==
    [meeting_id |-> meeting_id,
     title |-> IF title # "" THEN title ELSE DefaultTitle(meeting_id),
     utterances |-> utts,
     metadata |->
       [total_utterances |-> Len(utts),
        total_duration |-> IF utts # <<>> THEN MaxEnd(utts) ELSE 0,
        whisper_model |-> WHISPER_MODEL,
        whisper_language |-> WHISPER_LANGUAGE]]

\* Mutant: the new utterances are added to the document already on disk
transcribe_segments_append(f, meeting_id, segs, title, outcome) ==
    WriteFile(f, get_transcript_path(meeting_id),
              json_dump("transcript",
                        BuildTranscript(meeting_id, title,
                            (IF PathExists(f, get_transcript_path(meeting_id))
                             THEN json_load("transcript", f[get_transcript_path(meeting_id)]).utterances
                             ELSE <<>>)
                            \o TranscribeLoop(segs, outcome, 1, <<>>))))

\* lines 224-242: the transcript is built from the utterances and written
transcribe_segments(f, meeting_id, segs, title, outcome) ==
    WriteFile(f, get_transcript_path(meeting_id),
              json_dump("transcript",
                        BuildTranscript(meeting_id, title,
                                        TranscribeLoop(segs, outcome, 1, <<>>))))

\* Mutant: the mapped value is looked up again
apply_speaker_map_twice(utts, speaker_map) ==
    LET Once(sp) == IF sp \in DOMAIN speaker_map THEN speaker_map[sp] ELSE sp
    IN [i \in 1..Len(utts) |-> [utts[i] EXCEPT !.speaker = Once(Once(utts[i].speaker))]]

apply_speaker_map(utts, speaker_map) ==
    IF DOMAIN speaker_map = {} THEN utts
    ELSE [i \in 1..Len(utts) |->
            IF utts[i].speaker \in DOMAIN speaker_map
            THEN [utts[i] EXCEPT !.speaker = speaker_map[utts[i].speaker]]
            ELSE utts[i]]

-----------------------------------------------------------------------------
(* vectordb.py (not in the source tree): the index as the specification    *)
(* describes it, upsert(meeting_id, utterances)                            *)

NoIndex == [exists |-> FALSE, entries |-> <<>>]

create_embeddings(f, meeting_id) ==
    [exists |-> TRUE, entries |-> load_transcript(f, meeting_id).utterances]

\* query(meeting_id, text, top_k, speaker_filter?) -> ranked SearchResult[]:
\* the first n_results entries, in retrieval order, of those whose speaker
\* is the filter (of all entries when there is no filter)
NoFilter == "*"

chroma_search_meeting(collection, n_results, speaker_filter) ==
    LET Matches(e) == speaker_filter = NoFilter \/ e.speaker = speaker_filter
        hits == SelectSeq(collection, Matches)
    IN SubSeq(hits, 1, Min(n_results, Len(hits)))

-----------------------------------------------------------------------------
(* retrieval.py: semantic search                                           *)

\* Mutant: a role is never turned into its label
ReverseMapNone(speaker_map) == [r \in {} |-> ""]

\* lines 62-65: {v: k for k, v in speaker_map.items()}
ReverseMap(speaker_map) ==
    [r \in { speaker_map[l] : l \in DOMAIN speaker_map } |->
        CHOOSE l \in DOMAIN speaker_map : speaker_map[l] = r]

\* line 130: key=lambda x: x.get("score", 0)
Score(e) == IF "score" \in DOMAIN e THEN e.score ELSE 0

\* lines 101-127: the sub-queries, one per role in list order, or one
\* unfiltered query
RECURSIVE FetchRoles(_, _, _, _, _)
FetchRoles(collection, roles, i, max_results, reverse_speaker_map) ==
    IF i > Len(roles) THEN <<>>
    ELSE LET speaker_id == IF roles[i] \in DOMAIN reverse_speaker_map
                           THEN reverse_speaker_map[roles[i]] ELSE roles[i]
         IN chroma_search_meeting(collection, max_results, speaker_id)
              \o FetchRoles(collection, roles, i + 1, max_results, reverse_speaker_map)

\* Mutant: only the first requested role is queried
FetchFirstRole(collection, speaker_roles, max_results, reverse_speaker_map) ==
    IF speaker_roles # <<>>
    THEN FetchRoles(collection, <<speaker_roles[1]>>, 1, max_results, reverse_speaker_map)
    ELSE chroma_search_meeting(collection, max_results, NoFilter)

Fetch(collection, speaker_roles, max_results, reverse_speaker_map) ==
    IF speaker_roles # <<>>
    THEN FetchRoles(collection, speaker_roles, 1, max_results, reverse_speaker_map)
    ELSE chroma_search_meeting(collection, max_results, NoFilter)

\* Mutant: an entry goes in front of the entries of equal score
SortInsertFront(all_results, order, k) ==
    LET p == Cardinality({ i \in 1..Len(order) :
                             Score(all_results[order[i]]) > Score(all_results[k]) })
    IN SubSeq(order, 1, p) \o <<k>> \o SubSeq(order, p + 1, Len(order))

\* line 130: list.sort(key=..., reverse=True) is stable; the list is given as
\* the positions of all_results, and position k goes behind every position
\* already placed whose score is at least its own
SortInsert(all_results, order, k) ==
    LET p == Cardinality({ i \in 1..Len(order) :
                             Score(all_results[order[i]]) >= Score(all_results[k]) })
    IN SubSeq(order, 1, p) \o <<k>> \o SubSeq(order, p + 1, Len(order))

RECURSIVE SortByScore(_, _)
SortByScore(all_results, n) ==
    IF n = 0 THEN <<>>
    ELSE SortInsert(all_results, SortByScore(all_results, n - 1), n)

\* Mutant: the list is cut to max_results as fetched, and only then sorted
RankedPositionsCutFirst(all_results, max_results) ==
    SortByScore(SubSeq(all_results, 1, Min(max_results, Len(all_results))),
                Min(max_results, Len(all_results)))

\* lines 130-131: sort, then all_results[:max_results]
RankedPositions(all_results, max_results) ==
    LET order == SortByScore(all_results, Len(all_results))
    IN SubSeq(order, 1, Min(max_results, Len(order)))

\* lines 77-135: the list _semantic_search returns
_semantic_search(collection, speaker_roles, max_results, reverse_speaker_map) ==
    LET all_results == Fetch(collection, speaker_roles, max_results, reverse_speaker_map)
        order == RankedPositions(all_results, max_results)
    IN [i \in 1..Len(order) |-> all_results[order[i]]]

-----------------------------------------------------------------------------
(* __init__.py: process_meeting                                            *)

NoCall == [meeting_id |-> "", title |-> "", apply_speaker_labels |-> FALSE,
           create_vectors |-> FALSE, force |-> FALSE]
NoResult == [status |-> "none"]

ErrorResult(meeting_id, title, message) ==
    [meeting_id |-> meeting_id, title |-> title, status |-> "error", error |-> message]

SummaryResult(meeting_id, status, transcript) ==
    [meeting_id |-> meeting_id,
     title |-> transcript.title,
     status |-> status,
     utterances |-> Len(transcript.utterances),
     speakers |-> Cardinality({transcript.utterances[i].speaker :
                                   i \in 1..Len(transcript.utterances)}),
     duration |-> transcript.metadata.total_duration]

\* what the diarization model may return: no turn, one turn, two turns of
\* one speaker half a second apart, two turns of two speakers
DiarOutputs ==
    { <<>>,
      <<Turn("SPEAKER_0", 0, 2)>>,
      <<Turn("SPEAKER_0", 0, 2), Turn("SPEAKER_0", 3, 5)>>,
      <<Turn("SPEAKER_0", 0, 2), Turn("SPEAKER_1", 3, 5)>> }

PIPELINE_MAX_GAP == 2    \* max_gap_seconds=1.0

Fail(message) ==
    /\ result' = ErrorResult(call.meeting_id, call.title, message)
    /\ pc' = "returned"

\* Mutant: the short cut is taken for force=True instead of force=False
Begin_inverted(meeting_id, title, apply_speaker_labels, create_vectors, force) ==
    /\ pc = "idle"
    /\ ncalls < MaxCalls
    /\ ncalls' = ncalls + 1
    /\ call' = [meeting_id |-> meeting_id, title |-> title,
                apply_speaker_labels |-> apply_speaker_labels,
                create_vectors |-> create_vectors, force |-> force]
    /\ IF ~AudioExists(meeting_id)
       THEN /\ result' = ErrorResult(meeting_id, title, "No audio file found")
            /\ pc' = "returned"
       ELSE IF meeting_is_processed(meeting_id) /\ force
       THEN /\ result' = SummaryResult(meeting_id, "already_processed",
                                       load_transcript(fs, meeting_id))
            /\ pc' = "returned"
       ELSE /\ result' = NoResult
            /\ pc' = "diarize"
    /\ UNCHANGED <<recordings, fs, index, segments, utterances>>

\* lines 96-114: audio check, then the already-processed short cut
Begin(meeting_id, title, apply_speaker_labels, create_vectors, force) ==
    /\ pc = "idle"
    /\ ncalls < MaxCalls
    /\ ncalls' = ncalls + 1
    /\ call' = [meeting_id |-> meeting_id, title |-> title,
                apply_speaker_labels |-> apply_speaker_labels,
                create_vectors |-> create_vectors, force |-> force]
    /\ IF ~AudioExists(meeting_id)
       THEN /\ result' = ErrorResult(meeting_id, title, "No audio file found")
            /\ pc' = "returned"
       ELSE IF meeting_is_processed(meeting_id) /\ ~force
       THEN /\ result' = SummaryResult(meeting_id, "already_processed",
                                       load_transcript(fs, meeting_id))
            /\ pc' = "returned"
       ELSE /\ result' = NoResult
            /\ pc' = "diarize"
    /\ UNCHANGED <<recordings, fs, index, segments, utterances>>

\* run_diarization raises before anything is written
DiarizeFails ==
    /\ pc = "diarize"
    /\ \/ ~AudioExists(call.meeting_id) /\ Fail("No audio file found")
       \/ AudioExists(call.meeting_id) /\ Fail("Speaker diarization failed")
    /\ UNCHANGED <<recordings, fs, index, call, segments, utterances, ncalls>>

\* Mutant: the turns are handed on without being saved
Diarize_unsaved(raw) ==
    /\ pc = "diarize"
    /\ AudioExists(call.meeting_id)
    /\ segments' = merge_same_speaker_segments(raw, PIPELINE_MAX_GAP)
    /\ pc' = "transcribe"
    /\ UNCHANGED <<recordings, fs, index, call, utterances, result, ncalls>>

\* run_diarization saves the raw turns; process_meeting merges them
Diarize(raw) ==
    /\ pc = "diarize"
    /\ AudioExists(call.meeting_id)
    /\ fs' = WriteFile(fs, get_diarization_path(call.meeting_id),
                       json_dump("segments", raw))
    /\ segments' = merge_same_speaker_segments(raw, PIPELINE_MAX_GAP)
    /\ pc' = "transcribe"
    /\ UNCHANGED <<recordings, index, call, utterances, result, ncalls>>

\* Mutant: the transcript file is opened and written before the pass fails
TranscribeFails_partial ==
    /\ pc = "transcribe"
    /\ Fail("Could not load Whisper model")
    /\ fs' = transcribe_segments(fs, call.meeting_id, <<>>, call.title, <<>>)
    /\ UNCHANGED <<recordings, index, call, segments, utterances, ncalls>>

\* transcribe_segments raises (no audio, model not loaded, ffmpeg missing)
\* before the transcript is built
TranscribeFails ==
    /\ pc = "transcribe"
    /\ \/ ~AudioExists(call.meeting_id) /\ Fail("No audio file found")
       \/ AudioExists(call.meeting_id) /\ Fail("Could not load Whisper model")
    /\ UNCHANGED <<recordings, fs, index, call, segments, utterances, ncalls>>

Transcribe(outcome) ==
    /\ pc = "transcribe"
    /\ AudioExists(call.meeting_id)
    /\ utterances' = TranscribeLoop(segments, outcome, 1, <<>>)
    /\ fs' = transcribe_segments(fs, call.meeting_id, segments, call.title, outcome)
    /\ pc' = "labels"
    /\ UNCHANGED <<recordings, index, call, segments, result, ncalls>>

\* Mutant: the labelled transcript is built anew, without the call's title
ApplyLabels_rebuild ==
    /\ pc = "labels"
    /\ LET speaker_map == load_speaker_map(fs, call.meeting_id) IN
       IF call.apply_speaker_labels /\ DOMAIN speaker_map # {}
       THEN /\ utterances' = apply_speaker_map(utterances, speaker_map)
            /\ fs' = save_json(fs, get_transcript_path(call.meeting_id), "transcript",
                        BuildTranscript(call.meeting_id, "",
                                        apply_speaker_map(utterances, speaker_map)))
       ELSE UNCHANGED <<utterances, fs>>
    /\ pc' = "embed"
    /\ UNCHANGED <<recordings, index, call, segments, result, ncalls>>

\* lines 137-152
ApplyLabels ==
    /\ pc = "labels"
    /\ LET speaker_map == load_speaker_map(fs, call.meeting_id) IN
       IF call.apply_speaker_labels /\ DOMAIN speaker_map # {}
       THEN /\ utterances' = apply_speaker_map(utterances, speaker_map)
            /\ fs' = save_json(fs, get_transcript_path(call.meeting_id), "transcript",
                        [load_transcript(fs, call.meeting_id)
                            EXCEPT !.utterances = apply_speaker_map(utterances, speaker_map)])
       ELSE UNCHANGED <<utterances, fs>>
    /\ pc' = "embed"
    /\ UNCHANGED <<recordings, index, call, segments, result, ncalls>>

EmbedFails ==
    /\ pc = "embed"
    /\ call.create_vectors
    /\ Fail("Embedding failed")
    /\ UNCHANGED <<recordings, fs, index, call, segments, utterances, ncalls>>

\* lines 154-162
Embed ==
    /\ pc = "embed"
    /\ index' = IF call.create_vectors
                THEN [index EXCEPT ![call.meeting_id] = create_embeddings(fs, call.meeting_id)]
                ELSE index
    /\ pc' = "summary"
    /\ UNCHANGED <<recordings, fs, call, segments, utterances, result, ncalls>>

\* lines 169-187
Summary ==
    /\ pc = "summary"
    /\ result' = SummaryResult(call.meeting_id, "success",
                               load_transcript(fs, call.meeting_id))
    /\ pc' = "returned"
    /\ UNCHANGED <<recordings, fs, index, call, segments, utterances, ncalls>>

\* the caller takes the result; the locals of the call are gone
Return ==
    /\ pc = "returned"
    /\ pc' = "idle"
    /\ call' = NoCall
    /\ segments' = <<>>
    /\ utterances' = <<>>
    /\ result' = NoResult
    /\ UNCHANGED <<recordings, fs, index, ncalls>>

\* the user puts a recording into, or takes it out of, RECORDINGS_DIR
AddRecording(meeting_id) ==
    /\ meeting_id \notin recordings
    /\ recordings' = recordings \cup {meeting_id}
    /\ UNCHANGED <<fs, index, pc, call, segments, utterances, result, ncalls>>

RemoveRecording(meeting_id) ==
    /\ meeting_id \in recordings
    /\ recordings' = recordings \ {meeting_id}
    /\ UNCHANGED <<fs, index, pc, call, segments, utterances, result, ncalls>>

save_speaker_map(meeting_id, speaker_map) ==
    /\ pc = "idle"
    /\ fs' = save_json(fs, get_speaker_map_path(meeting_id), "speaker_map", speaker_map)
    /\ UNCHANGED <<recordings, index, pc, call, segments, utterances, result, ncalls>>

PipeInit ==
    /\ recordings = {}
    /\ fs = <<>>
    /\ index = [m \in MeetingIds |-> NoIndex]
    /\ pc = "idle"
    /\ call = NoCall
    /\ segments = <<>>
    /\ utterances = <<>>
    /\ result = NoResult
    /\ ncalls = 0

MergeIdle ==
    /\ mIn = <<>>
    /\ mGap = 0
    /\ mOut = <<>>
    /\ mAgain = <<>>
    /\ mpc = "off"

TransIdle ==
    /\ tIn = <<>>
    /\ tOutcome = <<>>
    /\ tOut = <<>>
    /\ tpc = "off"

StoreIdle ==
    /\ sSaved = <<>>
    /\ spc = "off"

SearchIdle ==
    /\ qIndex = <<>>
    /\ qRoles = <<>>
    /\ qLimit = 0
    /\ qMap = <<>>
    /\ qRecv = <<>>
    /\ qOrder = <<>>
    /\ qOut = <<>>
    /\ qpc = "off"
    /\ qExists = FALSE
    /\ qIssued = <<>>

LookupIdle ==
    /\ kStored = <<>>
    /\ kArgs = <<>>
    /\ kOut = <<>>
    /\ kpc = "off"

FormatIdle ==
    /\ fIn = <<>>
    /\ fStamps = FALSE
    /\ fOut = <<>>
    /\ fpc = "off"

AnswerIdle ==
    /\ aProcessed = FALSE
    /\ aRole = ""
    /\ aSearch = <<>>
    /\ aGen = ""
    /\ aSent = <<>>
    /\ aEvents = <<>>
    /\ apc = "off"

LabelIdle ==
    /\ lIn = <<>>
    /\ lMap = <<>>
    /\ lOut = <<>>
    /\ lpc = "off"

\* the harnesses that are idle while another one runs
MergeOthersIdle == TransIdle /\ StoreIdle /\ SearchIdle /\ LookupIdle /\ FormatIdle /\ AnswerIdle /\ LabelIdle
TransOthersIdle == MergeIdle /\ StoreIdle /\ SearchIdle /\ LookupIdle /\ FormatIdle /\ AnswerIdle /\ LabelIdle
StoreOthersIdle == MergeIdle /\ TransIdle /\ SearchIdle /\ LookupIdle /\ FormatIdle /\ AnswerIdle /\ LabelIdle
SearchOthersIdle == MergeIdle /\ TransIdle /\ StoreIdle /\ LookupIdle /\ FormatIdle /\ AnswerIdle /\ LabelIdle
LookupOthersIdle == MergeIdle /\ TransIdle /\ StoreIdle /\ SearchIdle /\ FormatIdle /\ AnswerIdle /\ LabelIdle
FormatOthersIdle == MergeIdle /\ TransIdle /\ StoreIdle /\ SearchIdle /\ LookupIdle /\ AnswerIdle /\ LabelIdle
AnswerOthersIdle == MergeIdle /\ TransIdle /\ StoreIdle /\ SearchIdle /\ LookupIdle /\ FormatIdle /\ LabelIdle
LabelOthersIdle == MergeIdle /\ TransIdle /\ StoreIdle /\ SearchIdle /\ LookupIdle /\ FormatIdle /\ AnswerIdle

mergeOthers == <<transVars, storeVars, searchVars, lookupVars, formatVars, answerVars, labelVars>>
transOthers == <<mergeVars, storeVars, searchVars, lookupVars, formatVars, answerVars, labelVars>>
storeOthers == <<mergeVars, transVars, searchVars, lookupVars, formatVars, answerVars, labelVars>>
searchOthers == <<mergeVars, transVars, storeVars, lookupVars, formatVars, answerVars, labelVars>>
lookupOthers == <<mergeVars, transVars, storeVars, searchVars, formatVars, answerVars, labelVars>>
formatOthers == <<mergeVars, transVars, storeVars, searchVars, lookupVars, answerVars, labelVars>>
answerOthers == <<mergeVars, transVars, storeVars, searchVars, lookupVars, formatVars, labelVars>>
labelOthers == <<mergeVars, transVars, storeVars, searchVars, lookupVars, formatVars, answerVars>>

Init == PipeInit /\ MergeIdle /\ MergeOthersIdle

otherVars == <<mergeVars, mergeOthers>>

Next ==
    \/ \E m \in MeetingIds, t \in Titles, a \in BOOLEAN, v \in BOOLEAN, f \in BOOLEAN :
          Begin(m, t, a, v, f) /\ UNCHANGED otherVars
    \/ DiarizeFails /\ UNCHANGED otherVars
    \/ \E raw \in DiarOutputs : Diarize(raw) /\ UNCHANGED otherVars
    \/ TranscribeFails /\ UNCHANGED otherVars
    \/ \E outcome \in [1..Len(segments) -> SegOutcomes] :
          Transcribe(outcome) /\ UNCHANGED otherVars
    \/ ApplyLabels /\ UNCHANGED otherVars
    \/ EmbedFails /\ UNCHANGED otherVars
    \/ Embed /\ UNCHANGED otherVars
    \/ Summary /\ UNCHANGED otherVars
    \/ Return /\ UNCHANGED otherVars
    \/ \E m \in MeetingIds : AddRecording(m) /\ UNCHANGED otherVars
    \/ \E m \in MeetingIds : RemoveRecording(m) /\ UNCHANGED otherVars
    \/ \E m \in MeetingIds, sm \in SpeakerMaps :
          save_speaker_map(m, sm) /\ UNCHANGED otherVars

Spec == Init /\ [][Next]_vars

-----------------------------------------------------------------------------
(* Claims about process_meeting, checked under Spec                        *)

BeginStep == pc = "idle" /\ pc' # "idle"

C4_ForceReplaces ==
    [][/\ (BeginStep /\ call'.force)
            => (\/ pc' = "diarize"
                \/ ~AudioExists(call'.meeting_id) /\ result'.status = "error")
       /\ (pc = "summary" /\ pc' = "returned" /\ call.force)
            => (/\ result'.status = "success"
                /\ merge_same_speaker_segments(
                       load_json(fs', get_diarization_path(call.meeting_id), "segments"),
                       PIPELINE_MAX_GAP) = segments
                /\ load_transcript(fs', call.meeting_id).utterances = utterances
                /\ load_transcript(fs', call.meeting_id).metadata.total_utterances
                       = Len(utterances)
                /\ result'.utterances = Len(utterances))]_vars

C4_Witness ==
    /\ pc = "returned"
    /\ result.status = "success"
    /\ call.force /\ ~call.create_vectors
    /\ index[call.meeting_id].exists
    /\ index[call.meeting_id].entries # utterances

\* the stages of one run follow each other in the order of the code
StageSuccessors(stage) ==
    CASE stage = "idle" -> {"diarize", "returned"}
      [] stage = "diarize" -> {"transcribe", "returned"}
      [] stage = "transcribe" -> {"labels", "returned"}
      [] stage = "labels" -> {"embed"}
      [] stage = "embed" -> {"summary", "returned"}
      [] stage = "summary" -> {"returned"}
      [] stage = "returned" -> {"idle"}

\* a stage starts with the previous stage's file on disk: the diarization
\* file when transcription starts, the transcript holding the run's
\* utterances when label application and when embedding start, and the
\* index is built from the transcript on disk
StagesPersisted ==
    /\ pc' # pc => pc' \in StageSuccessors(pc)
    /\ (pc = "diarize" /\ pc' = "transcribe")
          => PathExists(fs', get_diarization_path(call.meeting_id))
    /\ (pc' \in {"labels", "embed"} /\ pc' # pc)
          => (/\ meeting_is_processed(call.meeting_id)'
              /\ load_transcript(fs', call.meeting_id).utterances = utterances')
    /\ (pc = "embed" /\ pc' = "summary" /\ call.create_vectors)
          => (/\ index'[call.meeting_id].exists
              /\ index'[call.meeting_id].entries
                    = load_transcript(fs, call.meeting_id).utterances
              /\ index'[call.meeting_id].entries = utterances)

\* C21 as stated: the stages run in order, each on the persisted output of
\* the one before; the segments transcription consumes are the segments
\* held on disk
C21_StagesOnDisk ==
    [][/\ StagesPersisted
       /\ (pc = "transcribe" /\ pc' = "labels")
             => (/\ PathExists(fs, get_diarization_path(call.meeting_id))
                 /\ segments = load_json(fs, get_diarization_path(call.meeting_id),
                                         "segments"))]_vars

\* C21 amended: the stages run in order; the raw turns are on disk before
\* merging, the segments transcription consumes are the merge of the turns
\* on disk (held in memory only), and embedding consumes the utterances of
\* the transcript on disk
C21_StagesInOrder ==
    [][/\ StagesPersisted
       /\ (pc = "transcribe" /\ pc' = "labels")
             => (/\ PathExists(fs, get_diarization_path(call.meeting_id))
                 /\ segments = merge_same_speaker_segments(
                                   load_json(fs, get_diarization_path(call.meeting_id),
                                             "segments"),
                                   PIPELINE_MAX_GAP))]_vars

\* a run past embedding whose merged segments differ from the turns on disk
C21_Witness ==
    /\ pc = "summary"
    /\ call.create_vectors /\ call.apply_speaker_labels
    /\ index[call.meeting_id].entries = utterances
    /\ Len(utterances) = 1
    /\ utterances[1].speaker = "CEO"
    /\ Len(load_json(fs, get_diarization_path(call.meeting_id), "segments")) = 2

\* C25: label application rewrites speaker fields only: the transcript on
\* disk after it has the title, the metadata and the utterances of the
\* transcript written by transcription, in the same order with the same id,
\* start, end and text
C25_LabelsOnlySpeakers ==
    [][(pc = "labels" /\ pc' = "embed") =>
          LET before == load_transcript(fs, call.meeting_id)
              after == load_transcript(fs', call.meeting_id)
              speaker_map == load_speaker_map(fs, call.meeting_id)
          IN /\ after.meeting_id = before.meeting_id
             /\ after.title = before.title
             /\ after.metadata = before.metadata
             /\ Len(after.utterances) = Len(before.utterances)
             /\ \A i \in 1..Len(before.utterances) :
                   /\ after.utterances[i].id = before.utterances[i].id
                   /\ after.utterances[i].start = before.utterances[i].start
                   /\ after.utterances[i].end = before.utterances[i].end
                   /\ after.utterances[i].text = before.utterances[i].text
                   /\ after.utterances[i].speaker # before.utterances[i].speaker
                         => (/\ call.apply_speaker_labels
                             /\ before.utterances[i].speaker \in DOMAIN speaker_map)
             /\ DOMAIN fs' = DOMAIN fs
             /\ \A p \in DOMAIN fs :
                   p # get_transcript_path(call.meeting_id) => fs'[p] = fs[p]]_vars

\* a titled transcript of two speakers after its labels were applied
C25_Witness ==
    /\ pc = "embed"
    /\ call.apply_speaker_labels
    /\ call.title # ""
    /\ DOMAIN load_speaker_map(fs, call.meeting_id) # {}
    /\ Len(load_transcript(fs, call.meeting_id).utterances) = 2
    /\ load_transcript(fs, call.meeting_id).utterances[1].speaker = "CEO"
    /\ load_transcript(fs, call.meeting_id).utterances[2].speaker = "SPEAKER_1"
    /\ load_transcript(fs, call.meeting_id).title = call.title

\* C5: meeting_is_processed(id) is true exactly when a transcript file exists
\* for the id, whatever the diarization file, the speaker map and the index
C5_ProcessedIffTranscript ==
    \A m \in MeetingIds :
        meeting_is_processed(m)
            <=> (\E p \in DOMAIN fs : p = <<"processed", m, "_transcript.json">>)

C5_Witness ==
    \E m \in MeetingIds :
        /\ ~meeting_is_processed(m)
        /\ PathExists(fs, get_diarization_path(m))
        /\ PathExists(fs, get_speaker_map_path(m))

-----------------------------------------------------------------------------
(* Harness for merge_same_speaker_segments: the function applied to every  *)
(* bounded segment sequence, and once more to its own output               *)

Segs == { Turn(sp, a, b) : sp \in Labels, a \in 0..MergeTime, b \in 0..MergeTime }
MergeSegments == { s \in Segs : s.start < s.end }

RECURSIVE SeqsUpTo(_, _)
SeqsUpTo(S, n) ==
    IF n = 0 THEN { <<>> }
    ELSE LET shorter == SeqsUpTo(S, n - 1) IN
         shorter \cup { Append(q, x) : q \in { r \in shorter : Len(r) = n - 1 }, x \in S }

\* [{A,0,5},{A,5.5,10},{B,10,12}] with gap 1.0, in half seconds
ExampleIn == <<Turn("SPEAKER_0", 0, 10), Turn("SPEAKER_0", 11, 20), Turn("SPEAKER_1", 20, 24)>>
ExampleOut == <<Turn("SPEAKER_0", 0, 20), Turn("SPEAKER_1", 20, 24)>>

MergeInit ==
    /\ mIn \in SeqsUpTo(MergeSegments, MergeLen) \cup {ExampleIn}
    /\ mGap \in 0..MergeGapMax
    /\ mOut = <<>>
    /\ mAgain = <<>>
    /\ mpc = "ready"

MergeRun ==
    /\ mpc = "ready"
    /\ mOut' = merge_same_speaker_segments(mIn, mGap)
    /\ mpc' = "merged"
    /\ UNCHANGED <<mIn, mGap, mAgain>>

MergeAgain ==
    /\ mpc = "merged"
    /\ mAgain' = merge_same_speaker_segments(mOut, mGap)
    /\ mpc' = "again"
    /\ UNCHANGED <<mIn, mGap, mOut>>

MergeNext ==
    \/ MergeRun /\ UNCHANGED <<pipeVars, mergeOthers>>
    \/ MergeAgain /\ UNCHANGED <<pipeVars, mergeOthers>>

MergeHarnessInit == PipeInit /\ MergeOthersIdle /\ MergeInit

MergeSpec == MergeHarnessInit /\ [][MergeNext]_vars

-----------------------------------------------------------------------------
(* Claims about merge_same_speaker_segments, checked under MergeSpec       *)

Duration(seg) == seg.end - seg.start

RECURSIVE SpeakingTime(_, _)
SpeakingTime(S, sp) ==
    IF S = <<>> THEN 0
    ELSE (IF S[1].speaker = sp THEN Duration(S[1]) ELSE 0) + SpeakingTime(Tail(S), sp)

\* segment i follows a segment of its own speaker at most g later
AbsorbedAt(S, g, i) ==
    /\ i > 1
    /\ S[i].speaker = S[i - 1].speaker
    /\ S[i].start - S[i - 1].end <= g

RECURSIVE AbsorbedGaps(_, _, _, _)
AbsorbedGaps(S, g, sp, i) ==
    IF i > Len(S) THEN 0
    ELSE (IF AbsorbedAt(S, g, i) /\ S[i].speaker = sp
          THEN S[i].start - S[i - 1].end ELSE 0) + AbsorbedGaps(S, g, sp, i + 1)

Chronological(S) == \A i \in 1..(Len(S) - 1) : S[i].end <= S[i + 1].start

AllGapsWithin(S, g) ==
    \A i \in 2..Len(S) :
        S[i].speaker = S[i - 1].speaker => S[i].start - S[i - 1].end <= g

BlockStarts(S, g) == { i \in 1..Len(S) : ~AbsorbedAt(S, g, i) }
NthStart(S, g, k) ==
    CHOOSE b \in BlockStarts(S, g) : Cardinality({ j \in BlockStarts(S, g) : j <= b }) = k
BlockEnd(S, g, b) ==
    CHOOSE e \in b..Len(S) :
        /\ \A j \in (b + 1)..e : AbsorbedAt(S, g, j)
        /\ e = Len(S) \/ ~AbsorbedAt(S, g, e + 1)
SinglePass(S, g) ==
    [k \in 1..Cardinality(BlockStarts(S, g)) |->
        LET b == NthStart(S, g, k) IN
        Turn(S[b].speaker, S[b].start, S[BlockEnd(S, g, b)].end)]

\* C7: merging is idempotent: merging the merged output again with the same
\* gap returns the merged output unchanged
C7_MergeIdempotent == mpc = "again" => mAgain = mOut

C7_Witness == mpc = "again" /\ Len(mOut) >= 2 /\ Len(mOut) < Len(mIn)

RECURSIVE Turns(_)
Turns(S) ==
    IF Len(S) <= 1 THEN [i \in 1..Len(S) |-> S[i].speaker]
    ELSE IF S[1].speaker = S[2].speaker THEN Turns(Tail(S))
    ELSE <<S[1].speaker>> \o Turns(Tail(S))

\* C22: two segments of one speaker with a segment of another speaker
\* between them are never merged, however close they are: the output keeps
\* the input's turn-taking, and input A, B, A comes back as three segments
C22_NoMergeAcross ==
    mpc = "merged" =>
        /\ Turns(mOut) = Turns(mIn)
        /\ Len(mOut) >= Len(Turns(mIn))
        /\ (/\ Len(mIn) = 3
            /\ mIn[1].speaker = mIn[3].speaker
            /\ mIn[2].speaker # mIn[1].speaker) => mOut = mIn

C22_Witness ==
    /\ mpc = "merged"
    /\ Len(mIn) = 3
    /\ mIn[1].speaker = "SPEAKER_0" /\ mIn[2].speaker = "SPEAKER_1"
    /\ mIn[3].speaker = "SPEAKER_0"
    /\ mIn[3].start - mIn[1].end <= mGap
    /\ Chronological(mIn)
    /\ Len(mOut) = 3

RECURSIVE MinStart(_, _, _)
MinStart(S, b, e) == IF b = e THEN S[b].start ELSE Min(S[b].start, MinStart(S, b + 1, e))

RECURSIVE MaxEndOf(_, _, _)
MaxEndOf(S, b, e) == IF b = e THEN S[b].end ELSE Max(S[b].end, MaxEndOf(S, b + 1, e))

OrderedByStart(S) == \A i \in 1..(Len(S) - 1) : S[i].start <= S[i + 1].start

\* C28 as stated: for input ordered by start, every output segment spans
\* the input segments merged into it (smallest start, largest end), and has
\* start < end
C28_SpansMerged ==
    (mpc = "merged" /\ OrderedByStart(mIn)) =>
        /\ Len(mOut) = Cardinality(BlockStarts(mIn, mGap))
        /\ \A k \in 1..Len(mOut) :
              LET b == NthStart(mIn, mGap, k)
                  e == BlockEnd(mIn, mGap, b)
              IN /\ mOut[k].start = MinStart(mIn, b, e)
                 /\ mOut[k].end = MaxEndOf(mIn, b, e)
                 /\ mOut[k].start < mOut[k].end

\* an output segment that ends before an input segment merged into it
C28_EndMovedBack ==
    /\ mpc = "merged"
    /\ OrderedByStart(mIn)
    /\ Len(mIn) = 2 /\ Len(mOut) = 1
    /\ mOut[1].end < mIn[1].end

-----------------------------------------------------------------------------
(* Harness for the per-segment loop of transcribe_segments                 *)

TransInputs ==
    UNION { { [k \in 1..n |-> Turn(sp[k], (k - 1) * 3, (k - 1) * 3 + 2)]
                : sp \in [1..n -> Labels] } : n \in 0..TransLen }

TransInit ==
    /\ tIn \in TransInputs
    /\ tOutcome \in [1..Len(tIn) -> SegOutcomes]
    /\ tOut = <<>>
    /\ tpc = "ready"

TransRun ==
    /\ tpc = "ready"
    /\ tOut' = TranscribeLoop(tIn, tOutcome, 1, <<>>)
    /\ tpc' = "done"
    /\ UNCHANGED <<tIn, tOutcome>>

TransNext == TransRun /\ UNCHANGED <<pipeVars, transOthers>>

TransHarnessInit == PipeInit /\ TransOthersIdle /\ TransInit

TransSpec == TransHarnessInit /\ [][TransNext]_vars

\* C3 as stated: N segments give exactly N utterances with ids 1..N in
\* segment order, each with its segment's speaker, start and end, and a
\* failed segment carries the failure sentinel
C3_AllSegmentsKept ==
    tpc = "done" =>
        /\ Len(tOut) = Len(tIn)
        /\ \A i \in 1..Len(tOut) :
              /\ tOut[i].id = i
              /\ tOut[i].speaker = tIn[i].speaker
              /\ tOut[i].start = tIn[i].start
              /\ tOut[i].end = tIn[i].end
              /\ tOutcome[i] \in {"EXTRACT_ERROR", "ASR_ERROR"} => tOut[i].text = FAILED_TEXT

Extracted == { i \in 1..Len(tIn) : tOutcome[i] # "EXTRACT_ERROR" }

\* C3 amended: there is one utterance for each segment whose audio extraction
\* succeeded, in segment order, with the segment's position as id and the
\* segment's speaker, start and end; a segment whose transcription raised
\* carries the failure sentinel; a segment whose extraction failed is skipped
C3_ExtractedSegmentsKept ==
    tpc = "done" =>
        /\ Len(tOut) = Cardinality(Extracted)
        /\ \A k \in 1..Len(tOut) :
              /\ tOut[k].id \in Extracted
              /\ k > 1 => tOut[k - 1].id < tOut[k].id
              /\ tOut[k].speaker = tIn[tOut[k].id].speaker
              /\ tOut[k].start = tIn[tOut[k].id].start
              /\ tOut[k].end = tIn[tOut[k].id].end
              /\ tOut[k].text = (IF tOutcome[tOut[k].id] = "ASR_ERROR" THEN FAILED_TEXT
                                 ELSE tOutcome[tOut[k].id])

C3_Witness ==
    /\ tpc = "done"
    /\ Len(tIn) = 3
    /\ tOutcome = <<"EXTRACT_ERROR", "ASR_ERROR", "revenue grew">>
    /\ Len(tOut) = 2
    /\ tOut[1].id = 2 /\ tOut[1].text = FAILED_TEXT

-----------------------------------------------------------------------------
(* Harness for the transcript store: save_json, then load_transcript       *)

StoreIds == {"m1", "m2"}

StoreUtterances ==
    { [id |-> 1, speaker |-> "SPEAKER_0", start |-> 0, end |-> 7, text |-> "revenue grew"],
      [id |-> 2, speaker |-> "CEO", start |-> 7, end |-> 105, text |-> FAILED_TEXT],
      [id |-> 12, speaker |-> "SPEAKER_1", start |-> 105, end |-> 1230, text |-> "costs fell"] }

\* the transcript documents of a meeting id
StoreDocs(meeting_id) ==
    { BuildTranscript(meeting_id, "Q3 Call", utts) :
         utts \in SeqsUpTo(StoreUtterances, StoreLen) }

NothingSaved == [saved |-> FALSE, doc |-> <<>>, replaced |-> 0]

StoreInit ==
    /\ sSaved = [m \in StoreIds |-> NothingSaved]
    /\ spc = "ready"

StoreSave(meeting_id, doc) ==
    /\ spc = "ready"
    /\ fs' = save_json(fs, get_transcript_path(meeting_id), "transcript", doc)
    /\ sSaved' = [sSaved EXCEPT ![meeting_id] =
                    [saved |-> TRUE, doc |-> doc,
                     replaced |-> IF sSaved[meeting_id].saved
                                  THEN Len(sSaved[meeting_id].doc.utterances) ELSE 0]]
    /\ UNCHANGED <<recordings, index, pc, call, segments, utterances, result, ncalls, spc>>

StoreNext ==
    \E m \in StoreIds : \E doc \in StoreDocs(m) :
        StoreSave(m, doc) /\ UNCHANGED storeOthers

StoreHarnessInit == PipeInit /\ StoreOthersIdle /\ StoreInit

StoreSpec == StoreHarnessInit /\ [][StoreNext]_vars

\* C6: loading a transcript returns the document saved last under the same
\* meeting id, utterance for utterance, and nothing of a document saved
\* before it
C6_SaveLoadRoundTrip ==
    spc = "ready" =>
        \A m \in StoreIds :
            /\ PathExists(fs, get_transcript_path(m)) <=> sSaved[m].saved
            /\ sSaved[m].saved =>
                  /\ load_transcript(fs, m) = sSaved[m].doc
                  /\ Len(load_transcript(fs, m).utterances) = Len(sSaved[m].doc.utterances)
                  /\ \A i \in 1..Len(sSaved[m].doc.utterances) :
                        load_transcript(fs, m).utterances[i] = sSaved[m].doc.utterances[i]

C6_Witness ==
    /\ spc = "ready"
    /\ sSaved["m1"].saved /\ sSaved["m2"].saved
    /\ sSaved["m1"].replaced = 2
    /\ Len(load_transcript(fs, "m1").utterances) = 1
    /\ load_transcript(fs, "m1").utterances[1].end = 1230

-----------------------------------------------------------------------------
(* Harness for _semantic_search over one collection                        *)

IndexSpeakers == {"SPEAKER_0", "CFO"}
Scores == {0, 1, 2}
RoleLists == { <<>>, <<"CEO">>, <<"CFO">>, <<"CEO", "CFO">>, <<"CFO", "CEO">>,
               <<"CEO", "CEO">>, <<"CEO", "SPEAKER_0">> }

\* the entry held at position k of the collection
EntriesAt(k) ==
    { [id |-> k, speaker |-> sp, text |-> "revenue grew", score |-> x] :
          sp \in IndexSpeakers, x \in Scores }
    \cup { [id |-> k, speaker |-> sp, text |-> "revenue grew"] : sp \in IndexSpeakers }

Ranked(entries) ==
    \A i \in 1..Len(entries) - 1 : Score(entries[i]) >= Score(entries[i + 1])

Collections ==
    UNION { { c \in [1..n -> UNION { EntriesAt(k) : k \in 1..n }] :
                /\ \A k \in 1..n : c[k] \in EntriesAt(k)
                /\ Ranked(c) } : n \in 0..IndexLen }

SearchInit ==
    /\ qExists \in BOOLEAN
    /\ qIndex \in (IF qExists THEN Collections ELSE { <<>> })
    /\ qIssued = <<>>
    /\ qRoles \in RoleLists
    /\ qLimit \in 0..MaxLimit
    /\ qMap \in SpeakerMaps \cup {NoMap}
    /\ qRecv = <<>>
    /\ qOrder = <<>>
    /\ qOut = <<>>
    /\ qpc = "ready"

\* line 103: reverse_speaker_map.get(role, role)
ResolveRole(reverse_speaker_map, role) ==
    IF role \in DOMAIN reverse_speaker_map THEN reverse_speaker_map[role] ELSE role

\* the speaker_filter of each call of chroma_search_meeting, in call order
SubQueryFilters(speaker_roles, reverse_speaker_map) ==
    IF speaker_roles # <<>>
    THEN [i \in 1..Len(speaker_roles) |-> ResolveRole(reverse_speaker_map, speaker_roles[i])]
    ELSE <<NoFilter>>

\* Mutant: a sub-query that raised is issued a second time
SemanticSearchFailsRetry ==
    /\ qpc = "ready"
    /\ ~qExists
    /\ qIssued' = <<SubQueryFilters(qRoles, ReverseMap(qMap))[1],
                    SubQueryFilters(qRoles, ReverseMap(qMap))[1]>>
    /\ qpc' = "raised"
    /\ UNCHANGED <<qIndex, qRoles, qLimit, qMap, qRecv, qOrder, qOut, qExists>>

\* lines 107-117, 121-127: the meeting has no collection, the first
\* sub-query raises ValueError, which is logged and raised again
SemanticSearchFails ==
    /\ qpc = "ready"
    /\ ~qExists
    /\ qIssued' = <<SubQueryFilters(qRoles, ReverseMap(qMap))[1]>>
    /\ qpc' = "raised"
    /\ UNCHANGED <<qIndex, qRoles, qLimit, qMap, qRecv, qOrder, qOut, qExists>>

SemanticSearch ==
    /\ qpc = "ready"
    /\ qExists
    /\ qIssued' = SubQueryFilters(qRoles, ReverseMap(qMap))
    /\ LET all_results == Fetch(qIndex, qRoles, qLimit, ReverseMap(qMap))
           order == RankedPositions(all_results, qLimit)
       IN /\ qRecv' = all_results
          /\ qOrder' = order
          /\ qOut' = [i \in 1..Len(order) |-> all_results[order[i]]]
    /\ qpc' = "done"
    /\ UNCHANGED <<qIndex, qRoles, qLimit, qMap, qExists>>

SearchNext ==
    \/ SemanticSearch /\ UNCHANGED <<pipeVars, searchOthers>>
    \/ SemanticSearchFails /\ UNCHANGED <<pipeVars, searchOthers>>

SearchHarnessInit == PipeInit /\ SearchOthersIdle /\ SearchInit

SearchSpec == SearchHarnessInit /\ [][SearchNext]_vars

\* C10: a semantic search returns at most max_results entries, in
\* non-increasing order of score (no score counts as 0), and entries of equal
\* score in the order in which the index returned them
C10_RankedAndStable ==
    qpc = "done" =>
        /\ Len(qOut) <= qLimit
        /\ Len(qOrder) = Len(qOut)
        /\ \A i \in 1..Len(qOut) :
              /\ qOrder[i] \in 1..Len(qRecv)
              /\ qOut[i] = qRecv[qOrder[i]]
        /\ \A i, j \in 1..Len(qOut) :
              i < j => /\ Score(qOut[i]) >= Score(qOut[j])
                       /\ qOrder[i] # qOrder[j]
                       /\ Score(qOut[i]) = Score(qOut[j]) => qOrder[i] < qOrder[j]

C10_Witness ==
    /\ qpc = "done"
    /\ qRoles = <<"CEO", "SPEAKER_0">>
    /\ qLimit = 2
    /\ Len(qRecv) = 4
    /\ \E k \in 1..Len(qRecv) : "score" \notin DOMAIN qRecv[k]
    /\ qOrder = <<1, 3>>
    /\ Score(qOut[1]) = Score(qOut[2])

\* positions of qRecv that were fetched and not returned
LeftOut == { k \in 1..Len(qRecv) : \A i \in 1..Len(qOrder) : qOrder[i] # k }

\* C11: with a role filter the sort and the cut are made once over the
\* results of all sub-queries: every returned entry scores at least as high
\* as every fetched entry that was left out, whatever role either has
C11_GlobalCut ==
    (qpc = "done" /\ qRoles # <<>>) =>
        /\ qOut = _semantic_search(qIndex, qRoles, qLimit, ReverseMap(qMap))
        /\ \A i \in 1..Len(qOut) : \A k \in LeftOut :
              Score(qOut[i]) >= Score(qRecv[k])

C11_Witness ==
    /\ qpc = "done"
    /\ qRoles = <<"CEO", "CFO">>
    /\ qLimit = 2
    /\ Len(qRecv) = 3
    /\ qRecv[1].speaker = "SPEAKER_0" /\ qRecv[2].speaker = "SPEAKER_0"
    /\ qRecv[3].speaker = "CFO"
    /\ Score(qRecv[3]) > Score(qRecv[2])
    /\ qOut[1].speaker = "CFO"
    /\ LeftOut = {2}

RolePermutations(roles) ==
    { [i \in 1..Len(roles) |-> roles[p[i]]] : p \in Permutations(1..Len(roles)) }

\* the results of the sub-query of the i-th requested role
SubQuery(i) ==
    FetchRoles(qIndex, <<qRoles[i]>>, 1, qLimit, ReverseMap(qMap))

\* two results of different sub-queries have the same score
CrossTie ==
    \E i, j \in 1..Len(qRoles) :
        /\ i # j
        /\ \E a \in 1..Len(SubQuery(i)), b \in 1..Len(SubQuery(j)) :
              Score(SubQuery(i)[a]) = Score(SubQuery(j)[b])

\* C12 as stated: for every permutation of the requested roles the returned
\* sequence is the same, also when results of different roles score equally
C12_OrderIndependent ==
    qpc = "done" =>
        \A perm \in RolePermutations(qRoles) :
            _semantic_search(qIndex, perm, qLimit, ReverseMap(qMap)) = qOut

\* C12 amended: for every permutation of the requested roles the returned
\* list has the same length and the same scores position by position; it is
\* the same list when no two results of different sub-queries score equally
C12_SameScores ==
    qpc = "done" =>
        \A perm \in RolePermutations(qRoles) :
            LET other == _semantic_search(qIndex, perm, qLimit, ReverseMap(qMap)) IN
            /\ Len(other) = Len(qOut)
            /\ \A i \in 1..Len(qOut) : Score(other[i]) = Score(qOut[i])
            /\ ~CrossTie => other = qOut

C12_Witness ==
    /\ qpc = "done"
    /\ qRoles = <<"CEO", "CFO">>
    /\ qLimit = 2
    /\ CrossTie
    /\ qOut[1].speaker = "SPEAKER_0"
    /\ _semantic_search(qIndex, <<"CFO", "CEO">>, qLimit, ReverseMap(qMap))[1].speaker = "CFO"

-----------------------------------------------------------------------------
(* retrieval.py: keyword search and context window.  A text is a sequence  *)
(* of characters.                                                          *)

\* str.lower()
LowerChar(c) == IF c = "A" THEN "a" ELSE IF c = "B" THEN "b" ELSE c
Lower(text) == [i \in 1..Len(text) |-> LowerChar(text[i])]

\* set(text.split()): the maximal runs of characters other than white space
RECURSIVE SplitLoop(_, _, _, _)
SplitLoop(text, i, word, words) ==
    IF i > Len(text) THEN (IF word = <<>> THEN words ELSE words \cup {word})
    ELSE IF text[i] = " "
         THEN SplitLoop(text, i + 1, <<>>, IF word = <<>> THEN words ELSE words \cup {word})
         ELSE SplitLoop(text, i + 1, Append(word, text[i]), words)

Tokens(text) == SplitLoop(Lower(text), 1, <<>>, {})

\* lines 170-171
Overlap(query, text) == Cardinality(Tokens(query) \cap Tokens(text))

\* Mutant: the requested roles are resolved through the speaker map first
KeywordScoredResolved(utts, query, speaker_roles) ==
    LET Keep(u) == /\ speaker_roles = <<>>
                      \/ \E r \in 1..Len(speaker_roles) :
                            ResolveRole(ReverseMap(qMap), speaker_roles[r]) = u.speaker
                   /\ Overlap(query, u.text) > 0
    IN SelectSeq(utts, Keep)

\* Mutant: an utterance is kept whatever its overlap
KeywordScoredAll(utts, query, speaker_roles) ==
    LET Keep(u) == speaker_roles = <<>>
                      \/ \E r \in 1..Len(speaker_roles) : speaker_roles[r] = u.speaker
    IN SelectSeq(utts, Keep)

\* lines 164-174: the utterances that pass the speaker filter and share a
\* token with the query, in stored order
KeywordScored(utts, query, speaker_roles) ==
    LET Keep(u) == /\ speaker_roles = <<>>
                      \/ \E r \in 1..Len(speaker_roles) : speaker_roles[r] = u.speaker
                   /\ Overlap(query, u.text) > 0
    IN SelectSeq(utts, Keep)

\* Mutant: an utterance goes in front of those of equal overlap
KeywordInsertFront(query, sorted, u) ==
    LET p == Cardinality({ i \in 1..Len(sorted) :
                             Overlap(query, sorted[i].text) > Overlap(query, u.text) })
    IN SubSeq(sorted, 1, p) \o <<u>> \o SubSeq(sorted, p + 1, Len(sorted))

\* line 177: sort(key=overlap, reverse=True), stable
KeywordInsert(query, sorted, u) ==
    LET p == Cardinality({ i \in 1..Len(sorted) :
                             Overlap(query, sorted[i].text) >= Overlap(query, u.text) })
    IN SubSeq(sorted, 1, p) \o <<u>> \o SubSeq(sorted, p + 1, Len(sorted))

RECURSIVE KeywordSort(_, _, _)
KeywordSort(query, scored, n) ==
    IF n = 0 THEN <<>>
    ELSE KeywordInsert(query, KeywordSort(query, scored, n - 1), scored[n])

\* lines 138-189
_keyword_search(utts, query, speaker_roles, max_results) ==
    LET scored == KeywordScored(utts, query, speaker_roles)
        sorted == KeywordSort(query, scored, Len(scored))
    IN SubSeq(sorted, 1, Min(max_results, Len(sorted)))

\* lines 207-212: the first position whose utterance has the id, 0 if none
RECURSIVE FindTarget(_, _, _)
FindTarget(utts, utterance_id, i) ==
    IF i > Len(utts) THEN 0
    ELSE IF utts[i].id = utterance_id THEN i
    ELSE FindTarget(utts, utterance_id, i + 1)

\* Mutant: the window stops one utterance early
get_context_short(utts, utterance_id, context_size) ==
    LET target == FindTarget(utts, utterance_id, 1) IN
    IF target = 0 THEN <<>>
    ELSE SubSeq(utts, Max(1, target - context_size),
                      Min(Len(utts), target + context_size - 1))

\* lines 192-231
get_context_around_utterance(utts, utterance_id, context_size) ==
    LET target == FindTarget(utts, utterance_id, 1) IN
    IF target = 0 THEN <<>>
    ELSE SubSeq(utts, Max(1, target - context_size),
                      Min(Len(utts), target + context_size))

-----------------------------------------------------------------------------
(* Harness for _keyword_search and get_context_around_utterance over one   *)
(* stored transcript                                                       *)

LookupTexts == { <<>>, <<" ">>, <<"a">>, <<"A", " ", "b">>, <<"a", "b">> }
LookupSpeakers == {"SPEAKER_0", "CEO"}
LookupRoles == { <<>>, <<"CEO">>, <<"CEO", "SPEAKER_1">> }

LookupUtterance(id, speaker, text) ==
    [id |-> id, speaker |-> speaker, start |-> id, end |-> id + 1, text |-> text]

\* transcripts of at most LookupLen utterances, ids increasing, holes allowed
SmallTranscripts ==
    UNION { { [k \in 1..n |-> LookupUtterance(ids[k], sp[k], tx[k])] :
                ids \in { f \in [1..n -> 1..(LookupLen + 1)] :
                            \A k \in 1..(n - 1) : f[k] < f[k + 1] },
                sp \in [1..n -> LookupSpeakers],
                tx \in [1..n -> LookupTexts] } : n \in 0..LookupLen }

TenUtterances == [k \in 1..10 |-> LookupUtterance(k, "CEO", <<"a">>)]

NoTranscript == [exists |-> FALSE, utterances |-> <<>>]

LookupInit ==
    /\ kStored \in {NoTranscript}
          \cup { [exists |-> TRUE, utterances |-> u] : u \in SmallTranscripts \cup {TenUtterances} }
    /\ kArgs = <<>>
    /\ kOut = <<>>
    /\ kpc = "ready"

\* get_utterances raises FileNotFoundError when there is no transcript
KeywordSearch(query, speaker_roles, max_results) ==
    /\ kpc = "ready"
    /\ kArgs' = [query |-> query, speaker_roles |-> speaker_roles, max_results |-> max_results]
    /\ IF kStored.exists
       THEN /\ kOut' = _keyword_search(kStored.utterances, query, speaker_roles, max_results)
            /\ kpc' = "keyword"
       ELSE /\ kOut' = kOut
            /\ kpc' = "keyword raised"
    /\ UNCHANGED kStored

Context(utterance_id, context_size) ==
    /\ kpc = "ready"
    /\ kArgs' = [utterance_id |-> utterance_id, context_size |-> context_size]
    /\ IF kStored.exists
       THEN /\ kOut' = get_context_around_utterance(kStored.utterances, utterance_id, context_size)
            /\ kpc' = "context"
       ELSE /\ kOut' = kOut
            /\ kpc' = "context raised"
    /\ UNCHANGED kStored

LookupNext ==
    \/ \E query \in LookupTexts, roles \in LookupRoles, n \in 0..MaxLimit :
          KeywordSearch(query, roles, n) /\ UNCHANGED <<pipeVars, lookupOthers>>
    \/ \E id \in 0..(LookupLen + 3), r \in 0..MaxRadius :
          Context(id, r) /\ UNCHANGED <<pipeVars, lookupOthers>>

LookupHarnessInit == PipeInit /\ LookupOthersIdle /\ LookupInit

LookupSpec == LookupHarnessInit /\ [][LookupNext]_vars

\* text[a..b] is a token of the text: a maximal run without white space
IsToken(text, a, b) ==
    /\ a <= b
    /\ \A i \in a..b : text[i] # " "
    /\ a = 1 \/ text[a - 1] = " "
    /\ b = Len(text) \/ text[b + 1] = " "

SharesToken(query, text) ==
    \E a, b \in 1..Len(query), c, d \in 1..Len(text) :
        /\ IsToken(query, a, b)
        /\ IsToken(text, c, d)
        /\ Lower(SubSeq(query, a, b)) = Lower(SubSeq(text, c, d))

\* C13: keyword search returns only utterances that share a lower-cased
\* token with the query, and nothing for a query without tokens
C13_KeywordOverlap ==
    kpc = "keyword" =>
        /\ \A i \in 1..Len(kOut) : SharesToken(kArgs.query, kOut[i].text)
        /\ (\A a, b \in 1..Len(kArgs.query) : ~IsToken(kArgs.query, a, b)) => kOut = <<>>

C13_Witness ==
    /\ kpc = "keyword"
    /\ kArgs.query = <<"a">>
    /\ kArgs.speaker_roles = <<>>
    /\ Len(kStored.utterances) = 2
    /\ kStored.utterances[1].text = <<"a", "b">>
    /\ kStored.utterances[2].text = <<"A", " ", "b">>
    /\ Len(kOut) = 1
    /\ kOut[1].id = kStored.utterances[2].id

\* the stored utterance passes the speaker filter of the request and shares
\* a token with the query
KeywordMatch(u) ==
    /\ SharesToken(kArgs.query, u.text)
    /\ kArgs.speaker_roles = <<>>
          \/ \E r \in 1..Len(kArgs.speaker_roles) : kArgs.speaker_roles[r] = u.speaker

\* u stands before v in the ranking: larger overlap, or equal overlap and
\* earlier in the transcript
RanksBefore(u, v) ==
    \/ Overlap(kArgs.query, u.text) > Overlap(kArgs.query, v.text)
    \/ /\ Overlap(kArgs.query, u.text) = Overlap(kArgs.query, v.text)
       /\ u.id < v.id

\* C23: keyword search returns the matching utterances by overlap count,
\* largest first, equal counts in transcript order, cut to the limit; the
\* entries are the stored utterances, with no score field
C23_KeywordRanking ==
    kpc = "keyword" =>
        LET stored == kStored.utterances
            matching == { i \in 1..Len(stored) : KeywordMatch(stored[i]) }
        IN /\ Len(kOut) = Min(kArgs.max_results, Cardinality(matching))
           /\ \A i \in 1..Len(kOut) :
                 /\ \E j \in matching : kOut[i] = stored[j]
                 /\ DOMAIN kOut[i] = {"id", "speaker", "start", "end", "text"}
           /\ \A i, j \in 1..Len(kOut) : i < j => RanksBefore(kOut[i], kOut[j])
           /\ \A j \in matching :
                 (\A i \in 1..Len(kOut) : kOut[i] # stored[j])
                     => \A i \in 1..Len(kOut) : RanksBefore(kOut[i], stored[j])

\* the later utterance has the larger overlap and comes first
C23_Witness ==
    /\ kpc = "keyword"
    /\ kArgs.query = <<"A", " ", "b">>
    /\ kArgs.max_results = 2
    /\ Len(kStored.utterances) = 2
    /\ kStored.utterances[1].text = <<"a">>
    /\ kStored.utterances[2].text = <<"A", " ", "b">>
    /\ Len(kOut) = 2
    /\ kOut[1] = kStored.utterances[2]
    /\ kOut[2] = kStored.utterances[1]

\* C14: the context of an utterance id is the stored utterances at positions
\* target - radius .. target + radius, cut at the ends of the sequence, where
\* target is the first position holding the id; it is empty when no
\* utterance has the id
C14_ContextWindow ==
    kpc = "context" =>
        LET utts == kStored.utterances
            hits == { i \in 1..Len(utts) : utts[i].id = kArgs.utterance_id }
            r == kArgs.context_size
        IN /\ hits = {} => kOut = <<>>
           /\ hits # {} =>
                \E t \in hits :
                    /\ \A i \in hits : t <= i
                    /\ Len(kOut) = Min(Len(utts), t + r) - Max(1, t - r) + 1
                    /\ \A k \in 1..Len(kOut) : kOut[k] = utts[Max(1, t - r) + k - 1]
           /\ (utts = TenUtterances /\ kArgs.utterance_id = 5 /\ r = 2) =>
                [k \in 1..Len(kOut) |-> kOut[k].id] = <<3, 4, 5, 6, 7>>
           /\ (utts = TenUtterances /\ kArgs.utterance_id = 1 /\ r = 2) =>
                [k \in 1..Len(kOut) |-> kOut[k].id] = <<1, 2, 3>>

C14_Witness ==
    /\ kpc = "context"
    /\ kStored.utterances = TenUtterances
    /\ kArgs.utterance_id = 5
    /\ kArgs.context_size = 2
    /\ Len(kOut) = 5
    /\ kOut[1].id = 3

-----------------------------------------------------------------------------
(* retrieval.py: format_results_for_llm.  Texts are strings.               *)

NO_RESULTS_TEXT == "No relevant information found in the meeting."

\* f"{x:.1f}" of a time held in half seconds
OneDecimal(t) == ToString(t \div 2) \o (IF t % 2 = 1 THEN ".5" ELSE ".0")

\* f"{x:.2f}" of a whole score
TwoDecimals(x) == ToString(x) \o ".00"

\* Mutant: entries are numbered from 0
FormatPartFromZero(i, r, include_timestamps) ==
    ToString(i - 1) \o ". " \o r.speaker
        \o (IF include_timestamps
            THEN " [" \o OneDecimal(r.start) \o "s-" \o OneDecimal(r.end) \o "s]"
            ELSE "")
        \o (IF "score" \in DOMAIN r THEN " (relevance: " \o TwoDecimals(r.score) \o ")" ELSE "")
        \o ":\n   " \o r.text

\* lines 251-266: one entry
FormatPart(i, r, include_timestamps) ==
    ToString(i) \o ". " \o r.speaker
        \o (IF include_timestamps
            THEN " [" \o OneDecimal(r.start) \o "s-" \o OneDecimal(r.end) \o "s]"
            ELSE "")
        \o (IF "score" \in DOMAIN r THEN " (relevance: " \o TwoDecimals(r.score) \o ")" ELSE "")
        \o ":\n   " \o r.text

\* line 268: "\n\n".join(context_parts)
RECURSIVE JoinParts(_, _, _)
JoinParts(results, i, include_timestamps) ==
    IF i = Len(results) THEN FormatPart(i, results[i], include_timestamps)
    ELSE FormatPart(i, results[i], include_timestamps) \o "\n\n"
            \o JoinParts(results, i + 1, include_timestamps)

\* lines 234-268
format_results_for_llm(results, include_timestamps) ==
    IF results = <<>> THEN NO_RESULTS_TEXT
    ELSE JoinParts(results, 1, include_timestamps)

-----------------------------------------------------------------------------
(* Harness for format_results_for_llm                                      *)

FormatResults ==
    { [id |-> 1, speaker |-> sp, start |-> 3, end |-> 25, text |-> tx, score |-> 1] :
          sp \in {"CEO", "SPEAKER_1"}, tx \in {"revenue grew", NO_RESULTS_TEXT} }
    \cup { [id |-> 1, speaker |-> sp, start |-> 3, end |-> 25, text |-> tx] :
          sp \in {"CEO", "SPEAKER_1"}, tx \in {"revenue grew", NO_RESULTS_TEXT} }

FormatInit ==
    /\ fIn \in SeqsUpTo(FormatResults, FormatLen)
    /\ fStamps \in BOOLEAN
    /\ fOut = ""
    /\ fpc = "ready"

Format ==
    /\ fpc = "ready"
    /\ fOut' = format_results_for_llm(fIn, fStamps)
    /\ fpc' = "done"
    /\ UNCHANGED <<fIn, fStamps>>

FormatNext == Format /\ UNCHANGED <<pipeVars, formatOthers>>

FormatHarnessInit == PipeInit /\ FormatOthersIdle /\ FormatInit

FormatSpec == FormatHarnessInit /\ [][FormatNext]_vars

\* the text `part` stands in `out` from position `at`
StandsAt(out, part, at) ==
    /\ at >= 1
    /\ at + Len(part) - 1 <= Len(out)
    /\ SubSeq(out, at, at + Len(part) - 1) = part

\* from position `at` on, `out` holds the entries of results i..n: each
\* begins with its number and speaker and ends with its text, and a blank
\* line stands between two entries
RECURSIVE EntriesFrom(_, _, _, _)
EntriesFrom(out, results, i, at) ==
    /\ StandsAt(out, ToString(i) \o ". " \o results[i].speaker, at)
    /\ IF i = Len(results)
       THEN StandsAt(out, results[i].text, Len(out) - Len(results[i].text) + 1)
       ELSE \E nxt \in (at + 1)..Len(out) :
               /\ StandsAt(out, results[i].text \o "\n\n", nxt - 2 - Len(results[i].text))
               /\ EntriesFrom(out, results, i + 1, nxt)

\* C15: the text is the no-results sentinel exactly when the list is empty;
\* a non-empty list gives one entry per result, numbered 1..n in list order
C15_SentinelIffEmpty ==
    fpc = "done" =>
        /\ fOut = NO_RESULTS_TEXT <=> fIn = <<>>
        /\ fIn # <<>> => EntriesFrom(fOut, fIn, 1, 1)

C15_Witness ==
    /\ fpc = "done"
    /\ Len(fIn) = 2
    /\ fStamps
    /\ fIn[1].text = NO_RESULTS_TEXT /\ "score" \notin DOMAIN fIn[1]
    /\ fIn[2].text = "revenue grew" /\ "score" \in DOMAIN fIn[2]
    /\ fOut # NO_RESULTS_TEXT

-----------------------------------------------------------------------------
(* actions/actions.py: ActionAnswerMeetingQuestion.run.  llm_helper.py is  *)
(* not in the source tree: the generated answer and the fallback text are  *)
(* as the specification describes them.                                    *)

Response(name) == [kind |-> "response", value |-> name]
TextMessage(text) == [kind |-> "text", value |-> text]
SlotSet(slot, value) == [slot |-> slot, value |-> value]
None == "None"

GENERATED_ANSWER == "Revenue grew, the CEO said."
generate_answer_from_context(results) == GENERATED_ANSWER
format_context_only(results) == format_results_for_llm(results, TRUE)

\* Mutant: an error of the search other than ValueError leaves the action
\* without a response
run_propagates(processed, search, gen) ==
    IF ~processed THEN [sent |-> <<Response("utter_no_meeting")>>, events |-> <<>>]
    ELSE IF search.kind = "ValueError"
    THEN [sent |-> <<Response("utter_no_meeting")>>, events |-> <<>>]
    ELSE IF search.kind = "Exception"
    THEN [sent |-> <<>>, events |-> <<>>]
    ELSE IF search.results = <<>>
    THEN [sent |-> <<Response("utter_no_results")>>,
          events |-> <<SlotSet("last_answer", None)>>]
    ELSE LET answer == IF gen = "raises" THEN format_results_for_llm(search.results, TRUE)
                       ELSE GENERATED_ANSWER
         IN [sent |-> <<TextMessage(answer)>>,
             events |-> <<SlotSet("last_answer", answer)>>]

\* Mutant: a failing generation is not caught where it happens
run_uncaught(processed, search, gen) ==
    IF ~processed THEN [sent |-> <<Response("utter_no_meeting")>>, events |-> <<>>]
    ELSE IF search.kind = "ValueError"
    THEN [sent |-> <<Response("utter_no_meeting")>>, events |-> <<>>]
    ELSE IF search.kind = "Exception"
    THEN [sent |-> <<Response("utter_processing_error")>>, events |-> <<>>]
    ELSE IF search.results = <<>>
    THEN [sent |-> <<Response("utter_no_results")>>,
          events |-> <<SlotSet("last_answer", None)>>]
    ELSE IF gen = "raises"
    THEN [sent |-> <<Response("utter_processing_error")>>, events |-> <<>>]
    ELSE [sent |-> <<TextMessage(generate_answer_from_context(search.results))>>,
          events |-> <<SlotSet("last_answer", generate_answer_from_context(search.results))>>]

\* lines 44-125: what run gives the dispatcher and what it returns
run(processed, search, gen) ==
    IF ~processed THEN [sent |-> <<Response("utter_no_meeting")>>, events |-> <<>>]
    ELSE IF search.kind = "ValueError"
    THEN [sent |-> <<Response("utter_no_meeting")>>, events |-> <<>>]
    ELSE IF search.kind = "Exception"
    THEN [sent |-> <<Response("utter_processing_error")>>, events |-> <<>>]
    ELSE IF search.results = <<>>
    THEN [sent |-> <<Response("utter_no_results")>>,
          events |-> <<SlotSet("last_answer", None)>>]
    ELSE LET answer == IF gen = "raises" THEN format_context_only(search.results)
                       ELSE generate_answer_from_context(search.results)
         IN [sent |-> <<TextMessage(answer)>>,
             events |-> <<SlotSet("last_answer", answer)>>]

SearchOutcomes ==
    { [kind |-> "results", results |-> r] : r \in SeqsUpTo(FormatResults, FormatLen) }
    \cup { [kind |-> "ValueError", results |-> <<>>], [kind |-> "Exception", results |-> <<>>] }

AnswerInit ==
    /\ aProcessed \in BOOLEAN
    /\ aRole \in {"", "CEO"}
    /\ aSearch \in SearchOutcomes
    /\ aGen \in {"returns", "raises"}
    /\ aSent = <<>>
    /\ aEvents = <<>>
    /\ apc = "ready"

Run ==
    /\ apc = "ready"
    /\ aSent' = run(aProcessed, aSearch, aGen).sent
    /\ aEvents' = run(aProcessed, aSearch, aGen).events
    /\ apc' = "returned"
    /\ UNCHANGED <<aProcessed, aRole, aSearch, aGen>>

AnswerNext == Run /\ UNCHANGED <<pipeVars, answerOthers>>

AnswerHarnessInit == PipeInit /\ AnswerOthersIdle /\ AnswerInit

AnswerSpec == AnswerHarnessInit /\ [][AnswerNext]_vars

\* C16: when the search gave at least one result and the generation of the
\* answer fails, the action sends the formatted context of the results as
\* its answer, stores it in last_answer, and sends no error response
C16_GenerationFallback ==
    (/\ apc = "returned"
     /\ aProcessed
     /\ aSearch.kind = "results"
     /\ aSearch.results # <<>>
     /\ aGen = "raises") =>
        /\ aSent = <<TextMessage(format_context_only(aSearch.results))>>
        /\ aEvents = <<SlotSet("last_answer", format_context_only(aSearch.results))>>
        /\ \A i \in 1..Len(aSent) : aSent[i].kind # "response"

C16_Witness ==
    /\ apc = "returned"
    /\ aProcessed
    /\ aSearch.kind = "results"
    /\ Len(aSearch.results) = 2
    /\ aGen = "raises"
    /\ Len(aSent) = 1
    /\ aSent[1].kind = "text"
    /\ aSent[1].value # GENERATED_ANSWER
    /\ aEvents[1].value = aSent[1].value

\* C30: every run of the action ends by returning, with exactly one message
\* sent: utter_no_meeting when the meeting is not processed or the search
\* fails with ValueError, utter_processing_error when it fails otherwise,
\* utter_no_results for an empty result, and a text otherwise; last_answer
\* is set to none for an empty result, to the text sent when an answer was
\* sent, and not at all on the other paths
C30_OneResponse ==
    apc # "ready" =>
        /\ apc = "returned"
        /\ Len(aSent) = 1
        /\ Len(aEvents) <= 1
        /\ \A i \in 1..Len(aEvents) : aEvents[i].slot = "last_answer"
        /\ ~aProcessed => (aSent[1] = Response("utter_no_meeting") /\ aEvents = <<>>)
        /\ (aProcessed /\ aSearch.kind = "ValueError")
              => (aSent[1] = Response("utter_no_meeting") /\ aEvents = <<>>)
        /\ (aProcessed /\ aSearch.kind = "Exception")
              => (aSent[1] = Response("utter_processing_error") /\ aEvents = <<>>)
        /\ (aProcessed /\ aSearch.kind = "results" /\ aSearch.results = <<>>)
              => (/\ aSent[1] = Response("utter_no_results")
                  /\ aEvents = <<SlotSet("last_answer", None)>>)
        /\ (aProcessed /\ aSearch.kind = "results" /\ aSearch.results # <<>>)
              => (/\ aSent[1].kind = "text"
                  /\ aGen = "returns" => aSent[1].value = GENERATED_ANSWER
                  /\ aEvents = <<SlotSet("last_answer", aSent[1].value)>>)

\* the search fails with an error other than ValueError
C30_Witness ==
    /\ apc = "returned"
    /\ aProcessed
    /\ aSearch.kind = "Exception"
    /\ aSent = <<Response("utter_processing_error")>>
    /\ aEvents = <<>>

-----------------------------------------------------------------------------
(* search_utterances in both modes over one meeting, whose collection and  *)
(* whose transcript may each be missing                                    *)

EngineCollections == { c \in Collections : Len(c) <= 1 }
EngineTranscripts == { t \in SmallTranscripts : Len(t) <= 1 }

EngineInit ==
    /\ SearchInit
    /\ qExists => qIndex \in EngineCollections
    /\ kStored \in {NoTranscript}
          \cup { [exists |-> TRUE, utterances |-> u] : u \in EngineTranscripts }
    /\ kArgs = <<>>
    /\ kOut = <<>>
    /\ kpc = "ready"

engineOthers == <<mergeVars, transVars, storeVars, formatVars, answerVars, labelVars>>

EngineOthersIdle ==
    MergeIdle /\ TransIdle /\ StoreIdle /\ FormatIdle /\ AnswerIdle /\ LabelIdle

\* lines 60-74: use_semantic chooses the mode
EngineNext ==
    \/ SemanticSearch /\ UNCHANGED <<pipeVars, lookupVars, engineOthers>>
    \/ SemanticSearchFails /\ UNCHANGED <<pipeVars, lookupVars, engineOthers>>
    \/ \E query \in LookupTexts :
          KeywordSearch(query, qRoles, qLimit) /\ UNCHANGED <<pipeVars, searchVars, engineOthers>>

EngineHarnessInit == PipeInit /\ EngineOthersIdle /\ EngineInit

EngineSpec == EngineHarnessInit /\ [][EngineNext]_vars

\* C17: without a collection a semantic search, and without a transcript a
\* keyword search, ends in the error raised underneath: nothing is returned,
\* and no sub-query is issued twice
C17_NotFoundPropagates ==
    /\ qpc # "ready" =>
          /\ qpc = "raised" <=> ~qExists
          /\ qpc = "raised" => (qOut = <<>> /\ Len(qIssued) = 1)
          /\ qpc = "done" =>
                Len(qIssued) = (IF qRoles = <<>> THEN 1 ELSE Len(qRoles))
    /\ kpc # "ready" =>
          /\ kpc = "keyword raised" <=> ~kStored.exists
          /\ kpc = "keyword raised" => kOut = <<>>

C17_Witness ==
    /\ qpc = "raised"
    /\ kpc = "keyword raised"
    /\ qRoles = <<"CEO", "CFO">>
    /\ qIssued = <<"SPEAKER_0">>

\* the results of the sub-queries with the given filters, one after another
RECURSIVE ScopedResults(_, _)
ScopedResults(filters, i) ==
    IF i > Len(filters) THEN <<>>
    ELSE chroma_search_meeting(qIndex, qLimit, filters[i]) \o ScopedResults(filters, i + 1)

\* C19: each requested role R gets exactly one sub-query, scoped to the label
\* the speaker map gives the role R when there is one, and to R itself when
\* no label maps to R or there is no map
C19_RoleResolution ==
    (qpc = "done" /\ qRoles # <<>>) =>
        /\ Len(qIssued) = Len(qRoles)
        /\ \A i \in 1..Len(qRoles) :
              LET labels == { l \in DOMAIN qMap : qMap[l] = qRoles[i] } IN
              IF labels # {} THEN qIssued[i] \in labels ELSE qIssued[i] = qRoles[i]
        /\ qRecv = ScopedResults(qIssued, 1)

C19_Witness ==
    /\ qpc = "done"
    /\ qMap = [l \in {"SPEAKER_0"} |-> "CEO"]
    /\ qRoles = <<"CEO", "CFO">>
    /\ qIssued = <<"SPEAKER_0", "CFO">>
    /\ Len(qRecv) = 2
    /\ qRecv[1].speaker = "SPEAKER_0" /\ qRecv[2].speaker = "CFO"

\* C26: a semantic search result holds no utterance id twice, whatever the
\* list of requested roles
C26_NoDuplicateIds ==
    qpc = "done" =>
        \A i, j \in 1..Len(qOut) : i # j => qOut[i].id # qOut[j].id

\* a role requested twice, or with the label it resolves to, returns its
\* utterance twice
C26_SameIdTwice ==
    /\ qpc = "done"
    /\ qRoles = <<"CEO", "SPEAKER_0">>
    /\ qMap = [l \in {"SPEAKER_0"} |-> "CEO"]
    /\ qLimit = 2
    /\ Len(qIndex) = 1
    /\ Len(qOut) = 2
    /\ qOut[1] = qOut[2]

\* the stored speaker value is one of the requested roles
SpeakerRequested(u) ==
    \E r \in 1..Len(kArgs.speaker_roles) : kArgs.speaker_roles[r] = u.speaker

\* C24: with a role filter, keyword search returns an utterance only when
\* its stored speaker value is one of the requested roles, whatever the
\* speaker map says: a role whose label is not applied to the transcript
\* matches nothing, while semantic search scopes its sub-query to the label
C24_KeywordExactSpeaker ==
    /\ (kpc = "keyword" /\ kArgs.speaker_roles # <<>>) =>
          LET stored == kStored.utterances
              matching == { i \in 1..Len(stored) :
                              /\ SpeakerRequested(stored[i])
                              /\ SharesToken(kArgs.query, stored[i].text) }
          IN /\ \A i \in 1..Len(kOut) : SpeakerRequested(kOut[i])
             /\ Len(kOut) = Min(kArgs.max_results, Cardinality(matching))
             /\ (\A i \in 1..Len(stored) : ~SpeakerRequested(stored[i])) => kOut = <<>>
    /\ (qpc = "done" /\ qRoles = <<"CEO">> /\ qMap = [l \in {"SPEAKER_0"} |-> "CEO"]) =>
          /\ qIssued = <<"SPEAKER_0">>
          /\ qOut = SubSeq(SelectSeq(qIndex, LAMBDA e : e.speaker = "SPEAKER_0"), 1, Len(qOut))
          /\ (qLimit >= 1 /\ \E k \in 1..Len(qIndex) : qIndex[k].speaker = "SPEAKER_0")
                => qOut # <<>>

\* the map names SPEAKER_0 the CEO, the stored transcript still says
\* SPEAKER_0: keyword search for the CEO finds nothing, semantic search does
C24_Witness ==
    /\ kpc = "keyword" /\ qpc = "done"
    /\ qMap = [l \in {"SPEAKER_0"} |-> "CEO"]
    /\ qRoles = <<"CEO">> /\ kArgs.speaker_roles = <<"CEO">>
    /\ kArgs.max_results >= 1
    /\ kArgs.query = <<"a">>
    /\ Len(kStored.utterances) = 1
    /\ kStored.utterances[1].speaker = "SPEAKER_0"
    /\ kStored.utterances[1].text = <<"a">>
    /\ kOut = <<>>
    /\ Len(qOut) = 1 /\ qOut[1].speaker = "SPEAKER_0"

-----------------------------------------------------------------------------
(* Harness for apply_speaker_map                                           *)

LabelSpeakers == {"SPEAKER_0", "SPEAKER_1", "CEO"}

LabelInputs ==
    UNION { { [k \in 1..n |-> [id |-> k, speaker |-> sp[k], start |-> 3 * k,
                               end |-> 3 * k + 2, text |-> "revenue grew"]] :
                sp \in [1..n -> LabelSpeakers] } : n \in 0..LabelLen }

\* no map, a plain map, a map whose values are keys again, a swap
LabelMaps ==
    { NoMap,
      [l \in {"SPEAKER_0"} |-> "CEO"],
      [l \in {"SPEAKER_0", "SPEAKER_1"} |-> IF l = "SPEAKER_0" THEN "SPEAKER_1" ELSE "CEO"],
      [l \in {"SPEAKER_0", "SPEAKER_1"} |-> IF l = "SPEAKER_0" THEN "SPEAKER_1" ELSE "SPEAKER_0"] }

LabelInit ==
    /\ lIn \in LabelInputs
    /\ lMap \in LabelMaps
    /\ lOut = <<>>
    /\ lpc = "ready"

LabelRun ==
    /\ lpc = "ready"
    /\ lOut' = apply_speaker_map(lIn, lMap)
    /\ lpc' = "done"
    /\ UNCHANGED <<lIn, lMap>>

LabelNext == LabelRun /\ UNCHANGED <<pipeVars, labelOthers>>

LabelHarnessInit == PipeInit /\ LabelOthersIdle /\ LabelInit

LabelSpec == LabelHarnessInit /\ [][LabelNext]_vars

\* C18: every utterance whose speaker is a key of the map gets the mapped
\* role, looked up once; every other utterance keeps its speaker; nothing
\* else changes, and an empty map changes nothing
C18_LabelsAppliedOnce ==
    lpc = "done" =>
        /\ Len(lOut) = Len(lIn)
        /\ \A i \in 1..Len(lIn) :
              /\ lIn[i].speaker \in DOMAIN lMap => lOut[i].speaker = lMap[lIn[i].speaker]
              /\ lIn[i].speaker \notin DOMAIN lMap => lOut[i].speaker = lIn[i].speaker
              /\ lOut[i].id = lIn[i].id
              /\ lOut[i].start = lIn[i].start
              /\ lOut[i].end = lIn[i].end
              /\ lOut[i].text = lIn[i].text
        /\ DOMAIN lMap = {} => lOut = lIn

C18_Witness ==
    /\ lpc = "done"
    /\ Len(lIn) = 3
    /\ DOMAIN lMap = {"SPEAKER_0", "SPEAKER_1"}
    /\ lMap["SPEAKER_0"] = "SPEAKER_1" /\ lMap["SPEAKER_1"] = "CEO"
    /\ lIn[1].speaker = "SPEAKER_0" /\ lOut[1].speaker = "SPEAKER_1"
    /\ lIn[2].speaker = "SPEAKER_1" /\ lOut[2].speaker = "CEO"
    /\ lIn[3].speaker = "CEO" /\ lOut[3].speaker = "CEO"

-----------------------------------------------------------------------------
(* process_meeting in a process that may be terminated: both writers of    *)
(* the transcript (transcribe_segments, save_json) open the file itself    *)
(* with mode "w" and stream the document into it                           *)

EmptyText == <<>>

\* the text of a file whose writer stopped before the document was out:
\* nothing yet, or the head of the document up to some utterance
CutTexts(text) ==
    {EmptyText} \cup
    { [meeting_id |-> text.meeting_id, title |-> text.title,
       utterances |-> SubSeq(text.utterances, 1, k)] : k \in 0..Len(text.utterances) }

\* the text parses as a whole transcript document
Complete(text) == "metadata" \in DOMAIN text

\* the process ends between two steps of the run; its locals are gone
Terminate ==
    /\ pc \notin {"idle", "terminated"}
    /\ pc' = "terminated"
    /\ call' = NoCall
    /\ segments' = <<>>
    /\ utterances' = <<>>
    /\ result' = NoResult
    /\ UNCHANGED <<recordings, fs, index, ncalls>>

\* the process ends inside the write of transcribe_segments (lines 243-244)
TerminateInTranscribe(outcome) ==
    /\ pc = "transcribe"
    /\ AudioExists(call.meeting_id)
    /\ \E text \in CutTexts(json_dump("transcript",
                    BuildTranscript(call.meeting_id, call.title,
                                    TranscribeLoop(segments, outcome, 1, <<>>)))) :
          fs' = WriteFile(fs, get_transcript_path(call.meeting_id), text)
    /\ pc' = "terminated"
    /\ call' = NoCall
    /\ segments' = <<>>
    /\ utterances' = <<>>
    /\ result' = NoResult
    /\ UNCHANGED <<recordings, index, ncalls>>

\* the process ends inside save_json of the label step (storage.py 32-36)
TerminateInLabels ==
    /\ pc = "labels"
    /\ call.apply_speaker_labels
    /\ DOMAIN load_speaker_map(fs, call.meeting_id) # {}
    /\ \E text \in CutTexts(json_dump("transcript",
                    [load_transcript(fs, call.meeting_id) EXCEPT !.utterances =
                        apply_speaker_map(utterances,
                                          load_speaker_map(fs, call.meeting_id))])) :
          fs' = WriteFile(fs, get_transcript_path(call.meeting_id), text)
    /\ pc' = "terminated"
    /\ call' = NoCall
    /\ segments' = <<>>
    /\ utterances' = <<>>
    /\ result' = NoResult
    /\ UNCHANGED <<recordings, index, ncalls>>

CrashNext ==
    \/ Next
    \/ Terminate /\ UNCHANGED otherVars
    \/ \E outcome \in [1..Len(segments) -> SegOutcomes] :
          TerminateInTranscribe(outcome) /\ UNCHANGED otherVars
    \/ TerminateInLabels /\ UNCHANGED otherVars

CrashSpec == Init /\ [][CrashNext]_vars

\* the run that wrote the transcript is past its transcription step
RunHasWritten == pc \in {"labels", "embed", "summary", "returned"} /\ call # NoCall
                    /\ (pc = "returned" => result.status = "success")

LabelsDue ==
    /\ call.apply_speaker_labels
    /\ DOMAIN load_speaker_map(fs, call.meeting_id) # {}

\* C20: whatever the point at which a run is terminated, the transcript
\* file of a meeting is absent or holds a whole transcript of one run: it
\* parses, and once the run has written it, it holds that run's utterances
\* with the speaker labels applied when a map exists and labels were asked for
C20_NoPartialDocument ==
    /\ \A m \in MeetingIds :
          meeting_is_processed(m) => Complete(fs[get_transcript_path(m)])
    /\ (RunHasWritten /\ LabelsDue) =>
          load_transcript(fs, call.meeting_id).utterances =
              apply_speaker_map(utterances, load_speaker_map(fs, call.meeting_id))

\* a terminated run has left a cut transcript behind
C20_CutFileLeft ==
    /\ pc = "terminated"
    /\ \E m \in MeetingIds :
          meeting_is_processed(m) /\ ~Complete(fs[get_transcript_path(m)])

\* a run with labels due has its unlabelled transcript on disk
C20_UnlabelledOnDisk ==
    /\ pc = "labels"
    /\ LabelsDue
    /\ \E i \in 1..Len(utterances) :
          utterances[i].speaker \in DOMAIN load_speaker_map(fs, call.meeting_id)
    /\ load_transcript(fs, call.meeting_id).utterances = utterances

-----------------------------------------------------------------------------
(* process_meeting followed by a semantic search of the meeting: the       *)
(* search reads the speaker map from disk and queries the index the        *)
(* pipeline built                                                          *)

SessionRoles == { <<>>, <<"CEO">>, <<"SPEAKER_0">>, <<"SPEAKER_1">> }

\* retrieval.py lines 56-71 with use_semantic=True, called between two
\* process_meeting calls
search_utterances_semantic(meeting_id, speaker_roles, max_results) ==
    /\ pc = "idle"
    /\ qpc = "off"
    /\ LET speaker_map == load_speaker_map(fs, meeting_id)
           reverse_map == ReverseMap(speaker_map)
           collection == index[meeting_id].entries
           all_results == Fetch(collection, speaker_roles, max_results, reverse_map)
           order == RankedPositions(all_results, max_results)
       IN /\ qMap' = speaker_map
          /\ qExists' = index[meeting_id].exists
          /\ qIndex' = collection
          /\ qRoles' = speaker_roles
          /\ qLimit' = max_results
          /\ IF index[meeting_id].exists
             THEN /\ qIssued' = SubQueryFilters(speaker_roles, reverse_map)
                  /\ qRecv' = all_results
                  /\ qOrder' = order
                  /\ qOut' = [i \in 1..Len(order) |-> all_results[order[i]]]
                  /\ qpc' = "done"
             ELSE /\ qIssued' = <<SubQueryFilters(speaker_roles, reverse_map)[1]>>
                  /\ qRecv' = <<>>
                  /\ qOrder' = <<>>
                  /\ qOut' = <<>>
                  /\ qpc' = "raised"

SessionNext ==
    \/ qpc = "off" /\ Next
    \/ \E m \in MeetingIds, roles \in SessionRoles, n \in 0..MaxLimit :
          search_utterances_semantic(m, roles, n) /\ UNCHANGED <<pipeVars, searchOthers>>

SessionSpec == Init /\ [][SessionNext]_vars

\* the meeting was processed with its labels applied and its embeddings
\* created from the transcript now on disk, and role R has an utterance
LabelledAndEmbedded(m, R) ==
    /\ meeting_is_processed(m)
    /\ \E l \in DOMAIN load_speaker_map(fs, m) : load_speaker_map(fs, m)[l] = R
    /\ index[m].exists
    /\ index[m].entries = load_transcript(fs, m).utterances
    /\ \E i \in 1..Len(index[m].entries) : index[m].entries[i].speaker = R

\* C27: once a meeting is processed with its speaker map applied and its
\* embeddings created, a semantic search for a role R of the map is scoped
\* to the speaker value R's utterances are stored under and returns
\* utterances of R, at least one when the limit allows
C27_RoleSearchFindsRole ==
    \A m \in MeetingIds :
        (/\ qpc = "done"
         /\ Len(qRoles) = 1
         /\ LabelledAndEmbedded(m, qRoles[1])
         /\ qLimit >= 1)
            => /\ \A i \in 1..Len(qOut) : qOut[i].speaker = qRoles[1]
               /\ \E i \in 1..Len(index[m].entries) :
                     index[m].entries[i].speaker = qIssued[1]
               /\ qOut # <<>>

\* the CEO's utterance is indexed under "CEO"; the search for the CEO asks
\* the index for SPEAKER_0 and gets nothing
C27_RoleSearchEmpty ==
    /\ qpc = "done"
    /\ qRoles = <<"CEO">>
    /\ qLimit >= 1
    /\ LabelledAndEmbedded("m1", "CEO")
    /\ qIssued = <<"SPEAKER_0">>
    /\ qOut = <<>>

-----------------------------------------------------------------------------
(* process_meeting called with create_vectors=True every time              *)

VectorsNext == Next /\ (BeginStep => call'.create_vectors)

VectorsSpec == Init /\ [][VectorsNext]_vars

\* C29: when every call asks for embeddings, a call that returns
\* "already_processed" finds the meeting past its embedding stage: the
\* index exists and was built from the transcript now on disk
C29_ProcessedMeansEmbedded ==
    (pc = "returned" /\ result.status = "already_processed") =>
        /\ index[call.meeting_id].exists
        /\ index[call.meeting_id].entries = load_transcript(fs, call.meeting_id).utterances

\* a call is answered "already_processed" for a meeting that has a
\* transcript and no index: the run that wrote the transcript failed in its
\* embedding stage
C29_ProcessedUnembedded ==
    /\ pc = "returned"
    /\ result.status = "already_processed"
    /\ call.create_vectors
    /\ ~index[call.meeting_id].exists

====
